---- MODULE Spec2Model ----
(***************************************************************************)
(* bgrun: a per-process supervisor.  The model covers the daemon package   *)
(* (process lifecycle, output fan-out, control socket dispatcher), the     *)
(* daemon entry point that publishes status.json, and the part of the      *)
(* client library that locates a daemon or its tombstone by PID.           *)
(*                                                                         *)
(* Every goroutine of the daemon is a process of the model; its position   *)
(* is a pc variable.  A step of the model is one stretch of code between   *)
(* two points where another goroutine can observe or change shared state.  *)
(***************************************************************************)
EXTENDS Integers, Sequences, FiniteSets, TLC

(* ---------------------------- bounds ----------------------------------- *)
MaxClients == 2      \* connections a run may open
MaxChunks  == 2      \* chunks of output read from the child in a run
MaxReqs    == 2      \* requests sent over all connections in a run
MaxTimeout == 1      \* largest timeout_secs of a WAIT request

(* ------------------------ protocol constants --------------------------- *)
StreamStdout == 1
StreamStderr == 2
StreamBoth   == 3

WaitTypeExit            == 0
WaitTypeForeground      == 1
WaitStatusCompleted     == 0
WaitStatusTimeout       == 1
WaitStatusNotApplicable == 2

Conns   == 1..MaxClients
Streams == {StreamStdout, StreamStderr}

\* err returned by cmd.Wait(): nil, *exec.ExitError (with its ExitCode()),
\* or any other error
WaitErrs == { [kind |-> "nil", code |-> 0],
              [kind |-> "ExitError", code |-> 1],
              [kind |-> "other", code |-> 0] }
NoErr == [kind |-> "none", code |-> 0]

VARIABLES
    useVTY,        \* config.UseVTY
    childAlive,    \* the child process has not exited yet
    waitErr,       \* what cmd.Wait() returns once the child has exited
    pipeClosed,    \* the daemon's read ends of the output pipes are closed
    rpc, rcount, rlist, rsel,      \* output readers (handleStdout/handleStderr)
    wpc, wlist,                    \* reap watcher (waitForProcess)
    running, exitCode, endedAt,    \* Daemon fields guarded by d.mu
    mu,                            \* holder of d.mu across several steps
    clients, attached, streams,    \* d.clients and the client structs
    listener, sockFile, closeCh, doneCh,
    cli, srvClosed, inbox, dpc, dreply,   \* connections and dispatchers
    sent,                          \* frames written to each connection
    nreq,
    acc,                           \* connection Accept() returned, not yet registered
    mpc, mstatus, statusExists, statusContent, dirRemoved,   \* entry point, tombstone
    spc,                           \* stop()
    writeMu, wire, wprog, dprog,   \* the separate writes of one WriteMessage
    sigs,                          \* the syscall.Kill calls that sent a signal
    winsize,                       \* window size of the PTY
    stdinPipe, stdinClosed,        \* d.stdinPipe # nil, d.stdinClosed
    stdinPipeClosed, stdinBytes,   \* the pipe's Close() ran; writes the child got
    wait,                          \* the WAIT each dispatcher is serving
    fgMain,                        \* the child's group is the PTY's foreground group
    zstatus, zlog, zret,           \* Client.status, Client.outputLog, what Wait returned
    intSize,                       \* bits of the build's int
    rstream, rmsg, wlast,          \* bytes an io.Reader holds; ReadMessage's result; last frame written
    rchunks,                       \* writes that put bytes on the stream since it was last empty
    exitIn, exitParsed,            \* WriteProcessExit's argument, ParseProcessExit's result
    term,                          \* termemu.Terminal
    stalled,                       \* clients that stopped reading, socket buffers full
    wsel,                          \* client broadcastProcessExit's loop is at
    cells,                         \* t.screen, t.scrollback, t.currentAttr
    twrites                        \* calls of Terminal.Write so far

vars == << useVTY, childAlive, waitErr, pipeClosed,
           rpc, rcount, rlist, rsel, wpc, wlist,
           running, exitCode, endedAt, mu, clients, attached, streams,
           listener, sockFile, closeCh, doneCh,
           cli, srvClosed, inbox, dpc, dreply, sent, nreq, acc,
           mpc, mstatus, statusExists, statusContent, dirRemoved, spc,
           writeMu, wire, wprog, dprog,
           sigs, winsize, stdinPipe, stdinClosed, stdinPipeClosed, stdinBytes,
           wait, fgMain, zstatus, zlog, zret,
           intSize, rstream, rmsg, wlast, rchunks, exitIn, exitParsed, term,
           stalled, wsel, cells, twrites >>

\* groups of variables, for UNCHANGED
childV == << childAlive, waitErr >>
readV  == << rpc, rcount, rlist, rsel >>
reapV  == << wpc, wlist >>
stV    == << running, exitCode, endedAt >>
cmapV  == << clients, attached, streams >>
sockV  == << listener, sockFile, closeCh, doneCh >>
connV  == << cli, srvClosed, inbox, dpc, dreply, nreq, acc >>
fileV  == << mstatus, statusExists, statusContent, dirRemoved >>
wireV  == << writeMu, wire, wprog, dprog >>
stdinV == << stdinPipe, stdinClosed, stdinPipeClosed, stdinBytes >>
ctlV   == << sigs, winsize, stdinV, wait, fgMain >>
zomV   == << zstatus, zlog, zret >>
codecV == << intSize, rstream, rmsg, wlast, rchunks, exitIn, exitParsed >>
cellV  == << cells, twrites >>
pureV  == << codecV, term, cellV >>
stallV == << stalled, wsel >>

(* ------------------------------ frames --------------------------------- *)
\* A frame as written by protocol.WriteMessage: the type tag and the payload.
\* The payload fields that a given type does not use are left at 0 / << >> / {} / "".
Frame(type, stream, data, code, status, text) ==
    [type |-> type, stream |-> stream, data |-> data, code |-> code,
     status |-> status, text |-> text]

\* The same four bytes, least significant first.
PutUint32LittleEndian(n) ==
    LET low31 == IF n >= 0 THEN n ELSE (n + 2147483647) + 1
        top   == IF n >= 0 THEN 0 ELSE 128
    IN << low31 % 256, (low31 \div 256) % 256, (low31 \div 65536) % 256,
          top + (low31 \div 16777216) >>

\* binary.BigEndian.PutUint32(payload, uint32(exitCode)): the four payload
\* bytes, most significant first, of the two's complement of n.
PutUint32(n) ==
    LET low31 == IF n >= 0 THEN n ELSE (n + 2147483647) + 1
        top   == IF n >= 0 THEN 0 ELSE 128
    IN << top + (low31 \div 16777216), (low31 \div 65536) % 256,
          (low31 \div 256) % 256, low31 % 256 >>

WriteOutput(stream, data) == Frame("OUTPUT", stream, data, << >>, {}, "")
WriteProcessExit(code)    == Frame("PROCESS_EXIT", 0, 0, PutUint32(code), {}, "")
WriteStatusResponse(st)   == Frame("STATUS_RESPONSE", 0, 0, << >>, {st}, "")
WriteError(text)          == Frame("ERROR", 0, 0, << >>, {}, text)
ShutdownAck               == Frame("STATUS_RESPONSE", 0, 0, << >>, {}, "shutting down")

\* A write on connection c succeeds while the connection is established and
\* neither end has closed it.
ConnWritable(c) == cli[c] = "conn" /\ ~srvClosed[c]

\* The connection after a WriteMessage of frame f.
ConnWrite(c, f) == IF ConnWritable(c) THEN Append(sent[c], f) ELSE sent[c]

(* --------------------------- initial state ----------------------------- *)
\* The goroutines that write frames with protocol.WriteMessage, other than
\* the per-connection dispatchers.
Writers == {"handleStdout", "handleStderr", "waitForProcess"}

\* No WAIT is being served.
NoWait == [type |-> 0, timeout |-> 0, clock |-> 0, polls |-> 0, done |-> FALSE,
           serving |-> FALSE, held |-> {}]

(* ------------------------- the terminal emulator ------------------------ *)
\* Bytes that the parser tells apart.
BEL == 7
BS == 8
HT == 9
LF == 10
CR == 13
ESC == 27

\* The code of the one-character string ch, for the characters the model writes.
Byte(ch) ==
    CASE ch = "-" -> 45 [] ch = "2" -> 50 [] ch = ";" -> 59
      [] ch = "A" -> 65 [] ch = "B" -> 66 [] ch = "C" -> 67 [] ch = "D" -> 68
      [] ch = "H" -> 72 [] ch = "J" -> 74 [] ch = "K" -> 75 [] ch = "M" -> 77
      [] ch = "[" -> 91 [] ch = "\\" -> 92 [] ch = "]" -> 93 [] ch = "m" -> 109
      [] ch = "x" -> 120

\* NewTerminal(rows, cols).  scrollback is len(t.scrollback); the cells are
\* left out, and so are the attributes and the hyperlink.  state "panic": an
\* index into t.screen was out of range and the runtime stopped the program.
NewTerminal(rows, cols) ==
    [rows |-> rows, cols |-> cols, cursorRow |-> 0, cursorCol |-> 0,
     scrollback |-> 0, maxScrollback |-> 1000, state |-> "normal", buf |-> << >>]

\* t.screen[row] exists; t.screen[row][col] exists.
RowOk(t, row) == row >= 0 /\ row < t.rows
CellOk(t, row, col) == RowOk(t, row) /\ col >= 0 /\ col < t.cols

panic(t) == [t EXCEPT !.state = "panic"]

\* lineFeed without the trimming of the scrollback.
lineFeedUntrimmed(t) ==
    IF t.cursorRow + 1 >= t.rows
    THEN [t EXCEPT !.scrollback = t.scrollback + 1, !.cursorRow = t.rows - 1]
    ELSE [t EXCEPT !.cursorRow = t.cursorRow + 1]

\* lineFeed
lineFeed(t) ==
    IF t.cursorRow + 1 >= t.rows
    THEN [t EXCEPT !.scrollback = IF t.scrollback + 1 > t.maxScrollback
                                  THEN t.scrollback ELSE t.scrollback + 1,
                   !.cursorRow = t.rows - 1]
    ELSE [t EXCEPT !.cursorRow = t.cursorRow + 1]

\* putChar
putChar(t) ==
    LET t1 == IF t.cursorCol >= t.cols THEN [lineFeed(t) EXCEPT !.cursorCol = 0] ELSE t
        t2 == IF t1.cursorRow >= t1.rows THEN [t1 EXCEPT !.cursorRow = t1.rows - 1] ELSE t1
    IN IF CellOk(t2, t2.cursorRow, t2.cursorCol)
       THEN [t2 EXCEPT !.cursorCol = t2.cursorCol + 1]
       ELSE panic(t2)

carriageReturn(t) == [t EXCEPT !.cursorCol = 0]

backspace(t) == IF t.cursorCol > 0 THEN [t EXCEPT !.cursorCol = t.cursorCol - 1] ELSE t

\* moveCursor
moveCursor(t, row, col) ==
    LET r1 == IF row < 0 THEN 0 ELSE row
        r2 == IF r1 >= t.rows THEN t.rows - 1 ELSE r1
        c1 == IF col < 0 THEN 0 ELSE col
        c2 == IF c1 >= t.cols THEN t.cols - 1 ELSE c1
    IN [t EXCEPT !.cursorRow = r2, !.cursorCol = c2]

clearScreen(t) == [t EXCEPT !.cursorRow = 0, !.cursorCol = 0]

clearLine(t) == IF RowOk(t, t.cursorRow) THEN [t EXCEPT !.cursorCol = 0] ELSE panic(t)

\* strings.Split(s, ";")
RECURSIVE Split(_)
Split(s) ==
    IF \A i \in 1..Len(s) : s[i] # Byte(";") THEN << s >>
    ELSE LET i == CHOOSE j \in 1..Len(s) :
                      s[j] = Byte(";") /\ \A k \in 1..(j - 1) : s[k] # Byte(";")
         IN << SubSeq(s, 1, i - 1) >> \o Split(SubSeq(s, i + 1, Len(s)))

IsDigit(b) == b >= 48 /\ b <= 57

RECURSIVE DigitsValue(_)
DigitsValue(ds) ==
    IF ds = << >> THEN 0
    ELSE (DigitsValue(SubSeq(ds, 1, Len(ds) - 1)) * 10) + (ds[Len(ds)] - 48)

\* strconv.Atoi(part): the set with the number, empty when err # nil.
Atoi(part) ==
    LET signed == part # << >> /\ part[1] \in { 43, 45 }
        ds     == IF signed THEN Tail(part) ELSE part
    IN IF ds = << >> \/ \E i \in 1..Len(ds) : ~ IsDigit(ds[i]) THEN {}
       ELSE { IF signed /\ part[1] = 45 THEN 0 - DigitsValue(ds) ELSE DigitsValue(ds) }

\* parseParams
parseParams(s) ==
    LET RECURSIVE Numbers(_)
        Numbers(parts) ==
            IF parts = << >> THEN << >>
            ELSE (IF Atoi(Head(parts)) = {} THEN << >>
                  ELSE << CHOOSE n \in Atoi(Head(parts)) : TRUE >>) \o Numbers(Tail(parts))
    IN IF s = << >> THEN << >> ELSE Numbers(Split(s))

\* executeCSI for the commands that touch the cursor or index the screen.
executeCSI(t, cmd) ==
    LET params == parseParams(t.buf)
        n      == IF Len(params) > 0 THEN params[1] ELSE 1
        mode   == IF Len(params) > 0 THEN params[1] ELSE 0
    IN CASE cmd = Byte("A") ->
              [t EXCEPT !.cursorRow = IF t.cursorRow - n < 0 THEN 0 ELSE t.cursorRow - n]
         [] cmd = Byte("B") ->
              [t EXCEPT !.cursorRow = IF t.cursorRow + n >= t.rows THEN t.rows - 1
                                      ELSE t.cursorRow + n]
         [] cmd = Byte("C") ->
              [t EXCEPT !.cursorCol = IF t.cursorCol + n >= t.cols THEN t.cols - 1
                                      ELSE t.cursorCol + n]
         [] cmd = Byte("D") ->
              [t EXCEPT !.cursorCol = IF t.cursorCol - n < 0 THEN 0 ELSE t.cursorCol - n]
         [] cmd = Byte("H") \/ cmd = 102 ->
              moveCursor(t, (IF Len(params) > 0 THEN params[1] ELSE 1) - 1,
                            (IF Len(params) > 1 THEN params[2] ELSE 1) - 1)
         [] cmd = Byte("J") ->
              IF mode \in { 0, 2 } THEN clearScreen(t) ELSE t
         [] cmd = Byte("K") ->
              CASE mode = 0 ->
                     IF t.cursorCol < t.cols /\ ~ CellOk(t, t.cursorRow, t.cursorCol)
                     THEN panic(t) ELSE t
                [] mode = 1 ->
                     IF 0 <= t.cursorCol /\ 0 < t.cols /\ ~ RowOk(t, t.cursorRow)
                     THEN panic(t) ELSE t
                [] mode = 2 -> clearLine(t)
                [] OTHER -> t
         [] OTHER -> t

\* processNormal
processNormal(t, b) ==
    CASE b = ESC -> [t EXCEPT !.state = "escape", !.buf = << >>]
      [] b = LF -> lineFeed(t)
      [] b = CR -> carriageReturn(t)
      [] b = BS -> backspace(t)
      [] b = HT -> LET nextTab == ((t.cursorCol \div 8) + 1) * 8
                   IN IF nextTab < t.cols THEN [t EXCEPT !.cursorCol = nextTab] ELSE t
      [] OTHER -> IF (b >= 32 /\ b < 127) \/ b >= 160 THEN putChar(t) ELSE t

\* processEscape
processEscape(t, b) ==
    CASE b = Byte("[") -> [t EXCEPT !.state = "csi", !.buf = << >>]
      [] b = Byte("]") -> [t EXCEPT !.state = "osc", !.buf = << >>]
      [] b = Byte("M") ->
           [t EXCEPT !.state = "normal",
                     !.cursorRow = IF t.cursorRow > 0 THEN t.cursorRow - 1 ELSE t.cursorRow]
      [] OTHER -> [t EXCEPT !.state = "normal"]

\* The byte ends a CSI sequence.
IsFinal(b) == (b >= 65 /\ b <= 90) \/ (b >= 97 /\ b <= 122) \/ b \in { 64, 96, 126 }

\* processCSI
processCSI(t, b) ==
    IF IsFinal(b)
    THEN LET t1 == executeCSI(t, b)
         IN IF t1.state = "panic" THEN t1 ELSE [t1 EXCEPT !.state = "normal"]
    ELSE [t EXCEPT !.buf = Append(t.buf, b)]

\* processOSC and processOSCEscape; the OSC data, which sets the hyperlink
\* only, is not kept.
processOSC(t, b) ==
    CASE b = BEL -> [t EXCEPT !.state = "normal"]
      [] b = ESC -> [t EXCEPT !.state = "oscEscape"]
      [] OTHER -> t

processOSCEscape(t, b) ==
    IF b = Byte("\\") THEN [t EXCEPT !.state = "normal"] ELSE [t EXCEPT !.state = "osc"]

\* processByte
processByte(t, b) ==
    CASE t.state = "normal" -> processNormal(t, b)
      [] t.state = "escape" -> processEscape(t, b)
      [] t.state = "csi" -> processCSI(t, b)
      [] t.state = "osc" -> processOSC(t, b)
      [] t.state = "oscEscape" -> processOSCEscape(t, b)

\* Terminal.Resize(rows, cols)
Resize(t, rows, cols) ==
    [t EXCEPT !.rows = rows, !.cols = cols,
              !.cursorRow = IF t.cursorRow >= rows THEN rows - 1 ELSE t.cursorRow,
              !.cursorCol = IF t.cursorCol >= cols THEN cols - 1 ELSE t.cursorCol]

(* ----------------------- the cells of the terminal --------------------- *)
\* Color: ColorDefault, and the 16 base colors 0..15.
ColorDefault == 0 - 1

\* The zero value of Attributes, which a Cell{} holds.
NoAttr ==
    [Bold |-> FALSE, Dim |-> FALSE, Italic |-> FALSE, Underline |-> FALSE,
     Blink |-> FALSE, Reverse |-> FALSE, Hidden |-> FALSE, Strike |-> FALSE,
     Fg |-> 0, Bg |-> 0]

\* Attributes{Fg: ColorDefault, Bg: ColorDefault}
DefaultAttr == [NoAttr EXCEPT !.Fg = ColorDefault, !.Bg = ColorDefault]

\* Cell{} and make([]Cell, cols); the hyperlink of a cell is left out.
Blank == [Char |-> 0, Attr |-> NoAttr]
BlankRow(cols) == [i \in 1..cols |-> Blank]

\* What NewTerminal(rows, cols) makes of t.screen, t.scrollback and
\* t.currentAttr.  Row r of the screen is screen[r + 1], column c of a row
\* is its element c + 1.
NewCells(rows, cols) ==
    [screen |-> [r \in 1..rows |-> BlankRow(cols)], scrollback |-> << >>,
     currentAttr |-> DefaultAttr]

\* The cells are followed only where a specification says so.
CellsIdle == cells = NewCells(0, 0) /\ twrites = 0

TermIdle == term = NewTerminal(24, 80) /\ CellsIdle

\* lineFeed that drops the newest line when the scrollback is full.
lineFeedCellsDropNewest(t, g) ==
    IF t.cursorRow + 1 >= t.rows
    THEN LET n == Len(g.screen)
         IN [g EXCEPT
               !.scrollback = IF n > 0 /\ Len(g.scrollback) + 1 <= t.maxScrollback
                              THEN Append(g.scrollback, g.screen[1]) ELSE g.scrollback,
               !.screen = [r \in 1..n |-> IF r < n THEN g.screen[r + 1] ELSE BlankRow(t.cols)]]
    ELSE g

\* lineFeed, on the cells: t is the terminal before the call.
lineFeedCells(t, g) ==
    IF t.cursorRow + 1 >= t.rows
    THEN LET n       == Len(g.screen)
             topLine == [i \in 1..t.cols |-> IF i <= Len(g.screen[1]) THEN g.screen[1][i] ELSE Blank]
             grown   == Append(g.scrollback, topLine)
         IN [g EXCEPT
               !.scrollback = IF n > 0
                              THEN (IF Len(grown) > t.maxScrollback THEN Tail(grown) ELSE grown)
                              ELSE g.scrollback,
               !.screen = [r \in 1..n |-> IF r < n THEN g.screen[r + 1] ELSE BlankRow(t.cols)]]
    ELSE g

\* putChar that wraps to column 0 of the row it is on.
putCharCellsNoFeed(t, g, ch) ==
    LET t1 == IF t.cursorCol >= t.cols THEN [t EXCEPT !.cursorCol = 0] ELSE t
    IN IF CellOk(t1, t1.cursorRow, t1.cursorCol)
       THEN [g EXCEPT !.screen[t1.cursorRow + 1][t1.cursorCol + 1] =
                          [Char |-> ch, Attr |-> g.currentAttr]]
       ELSE g

\* putChar, on the cells.
putCharCells(t, g, ch) ==
    LET wrap == t.cursorCol >= t.cols
        g1 == IF wrap THEN lineFeedCells(t, g) ELSE g
        t1 == IF wrap THEN [lineFeed(t) EXCEPT !.cursorCol = 0] ELSE t
        t2 == IF t1.cursorRow >= t1.rows THEN [t1 EXCEPT !.cursorRow = t1.rows - 1] ELSE t1
    IN IF CellOk(t2, t2.cursorRow, t2.cursorCol)
       THEN [g1 EXCEPT !.screen[t2.cursorRow + 1][t2.cursorCol + 1] =
                          [Char |-> ch, Attr |-> g.currentAttr]]
       ELSE g1

\* clearScreen and clearLine, on the cells.
clearScreenCells(t, g) == [g EXCEPT !.screen = [r \in 1..t.rows |-> BlankRow(t.cols)]]

clearLineCells(t, g) ==
    IF RowOk(t, t.cursorRow) THEN [g EXCEPT !.screen[t.cursorRow + 1] = BlankRow(t.cols)] ELSE g

\* processSGR, the switch for a parameter that is neither 38 nor 48.
sgrParam(a, p) ==
    CASE p = 0 -> DefaultAttr
      [] p = 1 -> [a EXCEPT !.Bold = TRUE]
      [] p = 2 -> [a EXCEPT !.Dim = TRUE]
      [] p = 3 -> [a EXCEPT !.Italic = TRUE]
      [] p = 4 -> [a EXCEPT !.Underline = TRUE]
      [] p = 5 -> [a EXCEPT !.Blink = TRUE]
      [] p = 7 -> [a EXCEPT !.Reverse = TRUE]
      [] p = 8 -> [a EXCEPT !.Hidden = TRUE]
      [] p = 9 -> [a EXCEPT !.Strike = TRUE]
      [] p = 22 -> [a EXCEPT !.Bold = FALSE, !.Dim = FALSE]
      [] p = 23 -> [a EXCEPT !.Italic = FALSE]
      [] p = 24 -> [a EXCEPT !.Underline = FALSE]
      [] p = 25 -> [a EXCEPT !.Blink = FALSE]
      [] p = 27 -> [a EXCEPT !.Reverse = FALSE]
      [] p = 28 -> [a EXCEPT !.Hidden = FALSE]
      [] p = 29 -> [a EXCEPT !.Strike = FALSE]
      [] p \in 30..37 -> [a EXCEPT !.Fg = p - 30]
      [] p = 39 -> [a EXCEPT !.Fg = ColorDefault]
      [] p \in 40..47 -> [a EXCEPT !.Bg = p - 40]
      [] p = 49 -> [a EXCEPT !.Bg = ColorDefault]
      [] p \in 90..97 -> [a EXCEPT !.Fg = p - 82]
      [] p \in 100..107 -> [a EXCEPT !.Bg = p - 92]
      [] OTHER -> a

\* processSGR, cases 38 and 48: the color an index below 16 selects.
sgrIndexed(a, p, colorIdx) ==
    IF colorIdx < 16
    THEN (IF p = 38 THEN [a EXCEPT !.Fg = colorIdx] ELSE [a EXCEPT !.Bg = colorIdx])
    ELSE a

\* processSGR that resets to the defaults before the first parameter only.
processSGRResetFirst(attr, params) ==
    LET ps == IF Len(params) = 0 THEN << 0 >> ELSE params
        RECURSIVE loop(_, _)
        loop(a, i) ==
            IF i > Len(ps) THEN a
            ELSE IF ps[i] = 0 /\ i > 1 THEN loop(a, i + 1)
            ELSE loop(sgrParam(a, ps[i]), i + 1)
    IN loop(attr, 1)

\* processSGR that does not step over the parameters of 38 and 48.
processSGRNoSkip(attr, params) ==
    LET ps == IF Len(params) = 0 THEN << 0 >> ELSE params
        RECURSIVE loop(_, _)
        loop(a, i) ==
            IF i > Len(ps) THEN a
            ELSE IF ps[i] \in { 38, 48 } /\ i + 2 <= Len(ps) /\ ps[i + 1] = 5
            THEN loop(sgrIndexed(a, ps[i], ps[i + 2]), i + 1)
            ELSE loop(sgrParam(a, ps[i]), i + 1)
    IN loop(attr, 1)

\* processSGR: params[i] is ps[i + 1].
processSGR(attr, params) ==
    LET ps == IF Len(params) = 0 THEN << 0 >> ELSE params
        RECURSIVE loop(_, _)
        loop(a, i) ==
            IF i > Len(ps) THEN a
            ELSE IF ps[i] \in { 38, 48 }
            THEN IF i + 2 <= Len(ps) /\ ps[i + 1] = 5
                 THEN loop(sgrIndexed(a, ps[i], ps[i + 2]), i + 3)
                 ELSE IF i + 4 <= Len(ps) /\ ps[i + 1] = 2
                 THEN loop(a, i + 5)
                 ELSE loop(a, i + 1)
            ELSE loop(sgrParam(a, ps[i]), i + 1)
    IN loop(attr, 1)

\* executeCSI, on the cells: erase in display, erase in line and SGR.
executeCSICells(t, g, cmd) ==
    LET params == parseParams(t.buf)
        mode   == IF Len(params) > 0 THEN params[1] ELSE 0
    IN CASE cmd = Byte("J") ->
              IF mode \in { 0, 2 } THEN clearScreenCells(t, g) ELSE g
         [] cmd = Byte("K") ->
              CASE mode = 0 ->
                     IF CellOk(t, t.cursorRow, t.cursorCol)
                     THEN [g EXCEPT !.screen[t.cursorRow + 1] =
                              [i \in 1..t.cols |-> IF i - 1 >= t.cursorCol THEN Blank ELSE @[i]]]
                     ELSE g
                [] mode = 1 ->
                     IF RowOk(t, t.cursorRow)
                     THEN [g EXCEPT !.screen[t.cursorRow + 1] =
                              [i \in 1..t.cols |-> IF i - 1 <= t.cursorCol THEN Blank ELSE @[i]]]
                     ELSE g
                [] mode = 2 -> clearLineCells(t, g)
                [] OTHER -> g
         [] cmd = Byte("m") ->
              [g EXCEPT !.currentAttr = processSGR(g.currentAttr, params)]
         [] OTHER -> g

\* processByte, on the cells.
processByteCells(t, g, b) ==
    CASE t.state = "normal" ->
           IF b = LF THEN lineFeedCells(t, g)
           ELSE IF b \notin { ESC, CR, BS, HT } /\ ((b >= 32 /\ b < 127) \/ b >= 160)
           THEN putCharCells(t, g, b)
           ELSE g
      [] t.state = "csi" -> IF IsFinal(b) THEN executeCSICells(t, g, b) ELSE g
      [] OTHER -> g

\* parse(data): processByte for each byte, on the terminal t and its cells g.
RECURSIVE parse(_, _)
parse(tg, data) ==
    IF data = << >> \/ tg.t.state = "panic" THEN tg
    ELSE parse([t |-> processByte(tg.t, Head(data)),
                g |-> processByteCells(tg.t, tg.g, Head(data))], Tail(data))

\* strconv.Itoa for a number that is not negative.
RECURSIVE Itoa(_)
Itoa(n) == IF n < 10 THEN << 48 + n >> ELSE Itoa(n \div 10) \o << 48 + (n % 10) >>

\* The bytes of the SGR sequence with the parameters params: ESC [ p ; p m.
RECURSIVE JoinParams(_)
JoinParams(params) ==
    IF params = << >> THEN << >>
    ELSE IF Len(params) = 1 THEN Itoa(params[1])
    ELSE Itoa(params[1]) \o << Byte(";") >> \o JoinParams(Tail(params))

Sgr(params) == << ESC, Byte("[") >> \o JoinParams(params) \o << Byte("m") >>

(* --------------------- frames as bytes on a stream --------------------- *)
\* A []byte, held as its runs of equal bytes: << [b |-> 65, n |-> 3] >> is
\* "AAA".  Neighbouring runs hold different bytes and no run is empty, so that
\* two values are equal exactly when the byte strings are.
Run(b, n) == IF n <= 0 THEN << >> ELSE << [b |-> b, n |-> n] >>

\* len(s)
RECURSIVE ByteLen(_)
ByteLen(s) == IF s = << >> THEN 0 ELSE Head(s).n + ByteLen(Tail(s))

\* append(s, t...)
Cat(s, t) ==
    IF s = << >> THEN t
    ELSE IF t = << >> THEN s
    ELSE IF s[Len(s)].b = t[1].b
         THEN SubSeq(s, 1, Len(s) - 1) \o Run(t[1].b, s[Len(s)].n + t[1].n) \o Tail(t)
         ELSE s \o t

\* The []byte with the bytes of the sequence q.
RECURSIVE Bytes(_)
Bytes(q) == IF q = << >> THEN << >> ELSE Cat(Run(Head(q), 1), Bytes(Tail(q)))

\* The bytes of s, one by one.
RECURSIVE Unpack(_)
Unpack(s) ==
    IF s = << >> THEN << >>
    ELSE << Head(s).b >> \o Unpack(Run(Head(s).b, Head(s).n - 1) \o Tail(s))

\* s[:k]
RECURSIVE Take(_, _)
Take(s, k) ==
    IF k <= 0 \/ s = << >> THEN << >>
    ELSE IF Head(s).n >= k THEN Run(Head(s).b, k)
    ELSE << Head(s) >> \o Take(Tail(s), k - Head(s).n)

\* s[k:]
RECURSIVE Drop(_, _)
Drop(s, k) ==
    IF k <= 0 \/ s = << >> THEN s
    ELSE IF Head(s).n > k THEN Run(Head(s).b, Head(s).n - k) \o Tail(s)
    ELSE Drop(Tail(s), k - Head(s).n)

\* s[i-1], counting from 1.
ByteAt(s, i) == Drop(s, i - 1)[1].b

\* The uint32 with big-endian bytes lb is greater than n (0 <= n < 2^31).
Uint32Gt(lb, n) ==
    LET low24 == (lb[2] * 65536) + (lb[3] * 256) + lb[4]
    IN \/ lb[1] > n \div 16777216
       \/ lb[1] = n \div 16777216 /\ low24 > n % 16777216

\* The value of the uint32 with big-endian bytes lb, when below 2^31.
Uint32Value(lb) == (lb[1] * 16777216) + (lb[2] * 65536) + (lb[3] * 256) + lb[4]

MsgStatus == 1
MsgOutput == 129
MsgProcessExit == 144

\* 10*1024*1024, the largest length field ReadMessage accepts.
MaxMessageLength == 10485760

\* ReadMessage's sanity check without the upper limit.
InvalidLengthNoMax(length) == ~ Uint32Gt(length, 0)

\* ReadMessage: length < 1 || length > 10*1024*1024
InvalidLength(length) == ~ Uint32Gt(length, 0) \/ Uint32Gt(length, MaxMessageLength)

\* No message has been read.
NoMsg == [err |-> "none", type |-> 0, payload |-> << >>]

\* ReadMessage on a reader that holds the bytes r and then ends: the message
\* or the error, and what the reader holds afterwards (a failed ReadFull has
\* taken the bytes that were there).
ReadMessage(r) ==
    LET Failed(e, rest) == [err |-> e, type |-> 0, payload |-> << >>, rest |-> rest]
    IN IF ByteLen(r) < 4 THEN Failed("failed to read message length", << >>)
       ELSE LET length == Unpack(Take(r, 4))
                r1     == Drop(r, 4)
                r2     == Drop(r1, 1)
            IN IF InvalidLength(length) THEN Failed("invalid message length", r1)
               ELSE IF ByteLen(r1) < 1 THEN Failed("failed to read message type", << >>)
               ELSE IF Uint32Gt(length, ByteLen(r2) + 1)
                    THEN Failed("failed to read payload", << >>)
               ELSE LET payloadLen == Uint32Value(length) - 1
                    IN [err |-> "", type |-> ByteAt(r1, 1),
                        payload |-> Take(r2, payloadLen), rest |-> Drop(r2, payloadLen)]

\* WriteMessage with the length field len(payload), the type byte not counted.
WriteMessageShort(msgType, payload) ==
    Cat(Cat(Bytes(PutUint32(ByteLen(payload))), Run(msgType, 1)), payload)

\* WriteMessage: the bytes it writes, the length uint32(1 + len(payload)), the
\* type, the payload.
WriteMessage(msgType, payload) ==
    Cat(Cat(Bytes(PutUint32(1 + ByteLen(payload))), Run(msgType, 1)), payload)

\* The build's int holding v (-2^31 <= v < 2^31), as its two's complement
\* bytes, most significant first.
IntBytes(v, bits) ==
    IF bits = 64
    THEN (IF v < 0 THEN << 255, 255, 255, 255 >> ELSE << 0, 0, 0, 0 >>) \o PutUint32(v)
    ELSE PutUint32(v)

\* ParseProcessExit: int(binary.BigEndian.Uint32(payload)), the conversion of
\* an unsigned 32-bit value to the build's int (zero-extended when int is
\* wider, reinterpreted when it is 32 bits).
ParseProcessExit(payload, bits) ==
    IF ByteLen(payload) # 4
    THEN [err |-> "invalid process exit payload length", code |-> << >>]
    ELSE [err |-> "",
          code |-> IF bits = 64 THEN << 0, 0, 0, 0 >> \o Unpack(payload)
                                ELSE Unpack(payload)]

\* No frame is on any stream and nothing has been parsed.
CodecIdle ==
    /\ rstream = << >>
    /\ rchunks = 0
    /\ rmsg = NoMsg
    /\ wlast = {}
    /\ exitIn = {}
    /\ exitParsed = {}

\* The daemon right after Daemon.Start() returned: the child runs, the socket
\* server listens, the output readers and the reap watcher are started, and
\* the entry point waits in its select.  streamed: config.StdinMode is
\* StdinStream, so that setupStdin kept the write end of a pipe in d.stdinPipe.
DaemonStarted(streamed) ==
    /\ useVTY \in BOOLEAN
    /\ stalled = [c \in Conns |-> FALSE]
    /\ wsel = 0
    /\ stdinPipe = streamed
    /\ stdinClosed = FALSE
    /\ stdinPipeClosed = FALSE
    /\ stdinBytes = 0
    /\ sigs = << >>
    /\ winsize = IF useVTY THEN << 24, 80 >> ELSE << 0, 0 >>
    /\ wait = [c \in Conns |-> NoWait]
    /\ fgMain = useVTY
    /\ zstatus = [c \in Conns |-> {}]
    /\ zlog = [c \in Conns |-> FALSE]
    /\ zret = [c \in Conns |-> {}]
    /\ childAlive = TRUE
    /\ waitErr = NoErr
    /\ pipeClosed = FALSE
    /\ rpc = [s \in Streams |-> IF useVTY /\ s = StreamStderr THEN "off" ELSE "read"]
    /\ rcount = [s \in Streams |-> 0]
    /\ rlist = [s \in Streams |-> {}]
    /\ rsel = [s \in Streams |-> 0]
    /\ wpc = "wait"
    /\ wlist = {}
    /\ running = TRUE
    /\ exitCode = {}
    /\ endedAt = {}
    /\ mu = "free"
    /\ listener = TRUE
    /\ sockFile = TRUE
    /\ closeCh = FALSE
    /\ doneCh = FALSE
    /\ srvClosed = [c \in Conns |-> FALSE]
    /\ inbox = [c \in Conns |-> << >>]
    /\ dreply = [c \in Conns |-> << >>]
    /\ sent = [c \in Conns |-> << >>]
    /\ nreq = 0
    /\ acc = 0
    /\ mpc = "select"
    /\ mstatus = {}
    /\ statusExists = FALSE
    /\ statusContent = {}
    /\ dirRemoved = FALSE
    /\ spc = "idle"
    /\ writeMu = [c \in Conns |-> "free"]
    /\ wire = [c \in Conns |-> << >>]
    /\ wprog = [w \in Writers |-> 0]
    /\ dprog = [c \in Conns |-> 0]

\* The same in a 64-bit build, no bytes on the way to a ReadMessage, the
\* terminal emulator as NewTerminal left it.
StartedStdin(streamed) ==
    /\ DaemonStarted(streamed)
    /\ intSize = 64
    /\ CodecIdle
    /\ TermIdle

\* The same with stdin of the child not streamed from the socket.
Started == StartedStdin(FALSE)

\* Nobody has connected yet.
Init ==
    /\ Started
    /\ clients = {}
    /\ attached = [c \in Conns |-> FALSE]
    /\ streams = [c \in Conns |-> 0]
    /\ cli = [c \in Conns |-> "idle"]
    /\ dpc = [c \in Conns |-> "none"]

\* Every connection has been accepted and registered by acceptConnections and
\* has sent nothing yet.
InitConnected ==
    /\ Started
    /\ clients = Conns
    /\ attached = [c \in Conns |-> FALSE]
    /\ streams = [c \in Conns |-> 0]
    /\ cli = [c \in Conns |-> "conn"]
    /\ dpc = [c \in Conns |-> "read"]

\* Every connection has been accepted and its ATTACH, with some valid stream
\* selector, has been handled; no output has been read yet.
InitAttached ==
    /\ Started
    /\ clients = Conns
    /\ attached = [c \in Conns |-> TRUE]
    /\ streams \in [Conns -> 1..StreamBoth]
    /\ cli = [c \in Conns |-> "conn"]
    /\ dpc = [c \in Conns |-> "read"]

\* The daemon process is alive until the entry point returns.
Alive == mpc # "exited"

(* ------------------------------ the child ------------------------------ *)
\* The child exits; e is what cmd.Wait() will report.
ChildExit(e) ==
    /\ childAlive
    /\ childAlive' = FALSE
    /\ waitErr' = e
    /\ UNCHANGED << useVTY, stallV, pureV, zomV, ctlV, wireV, pipeClosed, readV, reapV, stV, mu, cmapV, sockV,
                    connV, sent, mpc, fileV, spc >>

(* --------------------------- output readers ---------------------------- *)
\* The chunks read so far from both conduits.
ChunksRead == rcount[StreamStdout] + rcount[StreamStderr]

\* handleStdout / handleStderr / handleVTYOutput: one Read of the conduit.
\* A chunk is what one Read returns; the child may have written it at any
\* time before it exited (in VTY mode all output arrives on the PTY, read as
\* stream stdout).  Read fails once the daemon has closed its end (cmd.Wait
\* does so for pipes, stop() for pipes and the PTY) and ends with EOF once the
\* child is gone and the conduit is drained.
ReaderRead(s) ==
    /\ Alive
    /\ rpc[s] = "read"
    /\ \/ /\ ~pipeClosed
          /\ ChunksRead < MaxChunks
          /\ rcount' = [rcount EXCEPT ![s] = @ + 1]
          /\ rpc' = [rpc EXCEPT ![s] = "snap"]
       \/ /\ pipeClosed \/ ~childAlive
          /\ rpc' = [rpc EXCEPT ![s] = "done"]
          /\ UNCHANGED rcount
    /\ UNCHANGED << useVTY, stallV, pureV, zomV, ctlV, wireV, childV, pipeClosed, rlist, rsel, reapV, stV, mu, cmapV, sockV,
                    connV, sent, mpc, fileV, spc >>

\* broadcastOutput, first part: copy d.clients under d.mu.RLock.
BroadcastSnapshot(s) ==
    /\ Alive
    /\ rpc[s] = "snap"
    /\ mu = "free"
    /\ rlist' = [rlist EXCEPT ![s] = clients]
    /\ rpc' = [rpc EXCEPT ![s] = IF clients = {} THEN "read" ELSE "iter"]
    /\ UNCHANGED << useVTY, stallV, pureV, zomV, ctlV, wireV, childV, pipeClosed, rcount, rsel, reapV, stV, mu, cmapV, sockV,
                    connV, sent, mpc, fileV, spc >>

\* The stream test of broadcastOutput.
wantStream(stream, mask) ==
    \/ stream = StreamStdout /\ (mask % 2) = 1
    \/ stream = StreamStderr /\ ((mask \div 2) % 2) = 1

\* A decision that forgets the stream test.
BroadcastSelectsAttached(s, c) == attached[c]

\* The decision broadcastOutput takes for one client of its copy.  The fields
\* of the client struct are read without holding d.mu, attached first; as
\* conn.Write on a connection whose peer has stopped reading: once the socket
\* buffers are full the call waits (no write deadline is ever set) until the
\* connection is closed.
WriteBlocks(c) == stalled[c] /\ ConnWritable(c)

\* handleAttach is the only writer of streams and sets attached before it,
\* every pair of values the two reads can return is the pair held at one
\* instant, the one read here.
BroadcastSelects(s, c) == attached[c] /\ wantStream(s, streams[c])

\* A loop over the copy that does not move past client c.
ReaderNextKeep(s, c) ==
    /\ rsel' = [rsel EXCEPT ![s] = 0]
    /\ UNCHANGED << rlist, rpc >>

\* The reader of stream s is finished with client c of its copy.
ReaderNext(s, c) ==
    /\ rlist' = [rlist EXCEPT ![s] = @ \ {c}]
    /\ rsel' = [rsel EXCEPT ![s] = 0]
    /\ rpc' = [rpc EXCEPT ![s] = IF rlist[s] \ {c} = {} THEN "read" ELSE "iter"]

\* broadcastOutput, loop body up to the decision (Go iterates a map in no
\* particular order).
BroadcastCheck(s, c) ==
    /\ Alive
    /\ rpc[s] = "iter"
    /\ rsel[s] = 0
    /\ c \in rlist[s]
    /\ IF BroadcastSelects(s, c)
         THEN /\ rsel' = [rsel EXCEPT ![s] = c]
              /\ UNCHANGED << rlist, rpc >>
         ELSE ReaderNext(s, c)
    /\ UNCHANGED << useVTY, stallV, pureV, zomV, ctlV, wireV, childV, pipeClosed, rcount, reapV, stV, mu, cmapV, sockV,
                    connV, sent, mpc, fileV, spc >>

\* A broadcast that returns at the first write error.
BroadcastWriteAbort(s, c) ==
    /\ Alive
    /\ rpc[s] = "iter"
    /\ rsel[s] = c
    /\ c \in Conns
    /\ writeMu[c] = "free"
    /\ sent' = [sent EXCEPT ![c] = ConnWrite(c, WriteOutput(s, rcount[s]))]
    /\ IF ConnWritable(c)
         THEN ReaderNext(s, c)
         ELSE /\ rlist' = [rlist EXCEPT ![s] = {}]
              /\ rsel' = [rsel EXCEPT ![s] = 0]
              /\ rpc' = [rpc EXCEPT ![s] = "read"]
    /\ UNCHANGED << useVTY, stallV, pureV, zomV, ctlV, wireV, childV, pipeClosed, rcount, reapV, stV, mu, cmapV, sockV,
                    connV, mpc, fileV, spc >>

\* broadcastOutput, the write under client.writeMu; an error is only logged.
BroadcastWrite(s, c) ==
    /\ Alive
    /\ rpc[s] = "iter"
    /\ rsel[s] = c
    /\ c \in Conns
    /\ writeMu[c] = "free"
    /\ ~WriteBlocks(c)
    /\ sent' = [sent EXCEPT ![c] = ConnWrite(c, WriteOutput(s, rcount[s]))]
    /\ ReaderNext(s, c)
    /\ UNCHANGED << useVTY, stallV, pureV, zomV, ctlV, wireV, childV, pipeClosed, rcount, reapV, stV, mu, cmapV, sockV,
                    connV, mpc, fileV, spc >>

(* ----------------------------- reap watcher ---------------------------- *)
\* waitForProcess: cmd.Wait() returns once the child has exited.  For pipes
\* Wait also closes the daemon's read ends; the PTY stays open.
WaitReturns ==
    /\ Alive
    /\ wpc = "wait"
    /\ ~childAlive
    /\ pipeClosed' = (pipeClosed \/ ~useVTY)
    /\ wpc' = "lock"
    /\ UNCHANGED << useVTY, stallV, pureV, zomV, ctlV, wireV, childV, readV, wlist, stV, mu, cmapV, sockV,
                    connV, sent, mpc, fileV, spc >>

\* d.mu.Lock(); d.running = false
ReapSetRunning ==
    /\ Alive
    /\ wpc = "lock"
    /\ mu = "free"
    /\ mu' = "reap"
    /\ running' = FALSE
    /\ wpc' = "ended"
    /\ UNCHANGED << useVTY, stallV, pureV, zomV, ctlV, wireV, childV, pipeClosed, readV, wlist, exitCode, endedAt, cmapV,
                    sockV, connV, sent, mpc, fileV, spc >>

\* now := time.Now(); d.endedAt = &now
ReapSetEndedAt ==
    /\ Alive
    /\ wpc = "ended"
    /\ endedAt' = {"now"}
    /\ wpc' = "code"
    /\ UNCHANGED << useVTY, stallV, pureV, zomV, ctlV, wireV, childV, pipeClosed, readV, wlist, running, exitCode, mu,
                    cmapV, sockV, connV, sent, mpc, fileV, spc >>

\* The exit code waitForProcess derives from the error of cmd.Wait().
ExitCodeOf(err) ==
    IF err.kind = "ExitError" THEN err.code
    ELSE IF err.kind = "nil" THEN 0
    ELSE -1

\* d.exitCode = &code; d.mu.Unlock()
ReapSetExitCode ==
    /\ Alive
    /\ wpc = "code"
    /\ exitCode' = {ExitCodeOf(waitErr)}
    /\ mu' = "free"
    /\ wpc' = "snap"
    /\ UNCHANGED << useVTY, stallV, pureV, zomV, ctlV, wireV, childV, pipeClosed, readV, wlist, running, endedAt,
                    cmapV, sockV, connV, sent, mpc, fileV, spc >>

\* broadcastProcessExit, first part: copy d.clients under d.mu.RLock.
ExitSnapshot ==
    /\ Alive
    /\ wpc = "snap"
    /\ mu = "free"
    /\ wlist' = clients
    /\ wpc' = IF clients = {} THEN "rmsock" ELSE "iter"
    /\ UNCHANGED << useVTY, stallV, pureV, zomV, ctlV, wireV, childV, pipeClosed, readV, stV, mu, cmapV, sockV,
                    connV, sent, mpc, fileV, spc >>

\* broadcastProcessExit, loop body: the write under client.writeMu, to every
\* client of the copy, attached or not.
ExitWrite(c) ==
    /\ Alive
    /\ wpc = "iter"
    /\ c \in wlist
    /\ wsel \in {0, c}
    /\ writeMu[c] = "free"
    /\ ~WriteBlocks(c)
    /\ sent' = [sent EXCEPT ![c] =
                   ConnWrite(c, WriteProcessExit(CHOOSE e \in exitCode : TRUE))]
    /\ wlist' = wlist \ {c}
    /\ wpc' = IF wlist \ {c} = {} THEN "rmsock" ELSE "iter"
    /\ wsel' = 0
    /\ UNCHANGED << useVTY, stalled, pureV, zomV, ctlV, wireV, childV, pipeClosed, readV, stV, mu, cmapV, sockV,
                    connV, mpc, fileV, spc >>

\* broadcastProcessExit, loop body: the range reaches a client that does not
\* read; WriteProcessExit to it does not return while its buffers are full.
ExitWriteWaits(c) ==
    /\ Alive
    /\ wpc = "iter"
    /\ c \in wlist
    /\ wsel = 0
    /\ writeMu[c] = "free"
    /\ WriteBlocks(c)
    /\ wsel' = c
    /\ UNCHANGED << useVTY, stalled, pureV, zomV, ctlV, wireV, childV, pipeClosed, readV, reapV, stV, mu, cmapV,
                    sockV, connV, sent, mpc, fileV, spc >>

\* os.Remove(d.socketPath)
ReapRemoveSocket ==
    /\ Alive
    /\ wpc = "rmsock"
    /\ sockFile' = FALSE
    /\ wpc' = "close"
    /\ UNCHANGED << useVTY, stallV, pureV, zomV, ctlV, wireV, childV, pipeClosed, readV, wlist, stV, mu, cmapV,
                    listener, closeCh, doneCh, connV, sent, mpc, fileV, spc >>

\* close(d.doneCh)
ReapCloseDone ==
    /\ Alive
    /\ wpc = "close"
    /\ doneCh' = TRUE
    /\ wpc' = "done"
    /\ UNCHANGED << useVTY, stallV, pureV, zomV, ctlV, wireV, childV, pipeClosed, readV, wlist, stV, mu, cmapV,
                    listener, sockFile, closeCh, connV, sent, mpc, fileV, spc >>

(* ------------------------- clients of the daemon ----------------------- *)
\* What bgclient.New(pid) does in the current state of the runtime directory:
\* connect when control.sock exists, else read status.json, else fail.
NewOutcome ==
    IF dirRemoved THEN "err_nodir"
    ELSE IF sockFile THEN (IF listener THEN "pending" ELSE "err_dial")
    ELSE IF statusExists THEN (IF statusContent = {} THEN "err_parse" ELSE "zombie")
    ELSE "err_notfound"

\* A client process calls bgclient.New(pid).
New(c) ==
    /\ cli[c] = "idle"
    /\ \A b \in Conns : b < c => cli[b] # "idle"
    /\ cli' = [cli EXCEPT ![c] = NewOutcome]
    /\ zstatus' = [zstatus EXCEPT ![c] = IF NewOutcome = "zombie" THEN statusContent ELSE {}]
    /\ zlog' = [zlog EXCEPT ![c] = NewOutcome = "zombie"]
    /\ UNCHANGED << useVTY, stallV, pureV, zret, ctlV, wireV, childV, pipeClosed, readV, reapV, stV, mu, cmapV, sockV,
                    srvClosed, inbox, dpc, dreply, nreq, acc, sent, mpc, fileV, spc >>

\* A Wait in tombstone mode that returns Completed and leaves the runtime
\* directory in place.
ReapZombieKeep(c) ==
    /\ cli[c] = "zombie"
    /\ cli' = [cli EXCEPT ![c] = "reaped"]
    /\ zret' = [zret EXCEPT ![c] = {WaitStatusCompleted}]
    /\ UNCHANGED << useVTY, stallV, pureV, zstatus, zlog, ctlV, wireV, childV, pipeClosed, readV, reapV, stV,
                    mu, cmapV, sockV, srvClosed, inbox, dpc, dreply, nreq, acc, sent, mpc,
                    fileV, spc >>

\* Client.Wait(_, WaitTypeExit) in tombstone mode: reapZombie removes the
\* runtime directory.
ReapZombie(c) ==
    /\ cli[c] = "zombie"
    /\ cli' = [cli EXCEPT ![c] = "reaped"]
    /\ dirRemoved' = TRUE
    /\ statusExists' = FALSE
    /\ sockFile' = FALSE
    /\ zret' = [zret EXCEPT ![c] = {WaitStatusCompleted}]
    /\ UNCHANGED << useVTY, stallV, pureV, zstatus, zlog, ctlV, wireV, childV, pipeClosed, readV, reapV, stV,
                    mu, cmapV, listener, closeCh, doneCh, srvClosed, inbox, dpc, dreply, nreq,
                    acc, sent, mpc, mstatus, statusContent, spc >>

\* A live client closes its connection (or its process goes away).
ClientClose(c) ==
    /\ cli[c] = "conn"
    /\ cli' = [cli EXCEPT ![c] = "closed"]
    /\ UNCHANGED << useVTY, stallV, pureV, zomV, ctlV, wireV, childV, pipeClosed, readV, reapV, stV, mu, cmapV, sockV,
                    srvClosed, inbox, dpc, dreply, nreq, acc, sent, mpc, fileV, spc >>

\* Client.Wait in tombstone mode ignores the timeout: an exit wait reaps the
\* tombstone and returns Completed, any other wait type is not applicable.
ClientWaitZombie(c, timeoutSecs, waitType) ==
    IF waitType = WaitTypeExit
      THEN ReapZombie(c)
      ELSE /\ cli[c] = "zombie"
           /\ zret' = [zret EXCEPT ![c] = {WaitStatusNotApplicable}]
           /\ UNCHANGED << useVTY, stallV, pureV, zstatus, zlog, ctlV, wireV, childV, pipeClosed, readV, reapV,
                           stV, mu, cmapV, sockV, connV, sent, mpc, fileV, spc >>

\* The bytes of output.log: the readers append every chunk they read.
OutputLog == rcount

\* A ReadOutput that opens output.log by its path at each call.
ReadOutputByPath(c) ==
    IF cli[c] \notin {"zombie", "reaped"} THEN [err |-> "not terminated", data |-> {}]
    ELSE IF dirRemoved THEN [err |-> "failed to read output log", data |-> {}]
    ELSE [err |-> "", data |-> {OutputLog}]

\* Client.ReadOutput through the retained handle; without a handle there is
\* no output to return.
ReadOutput(c) ==
    IF cli[c] \notin {"zombie", "reaped"} THEN [err |-> "not terminated", data |-> {}]
    ELSE IF ~zlog[c] THEN [err |-> "", data |-> {}]
    ELSE [err |-> "", data |-> {OutputLog}]

\* Client.GetStatus in tombstone mode: the cached status.
ZombieStatus(c) == zstatus[c]

(* ------------------------------ accept loop ---------------------------- *)
\* acceptConnections: listener.Accept() returns a connection.
Accept(c) ==
    /\ Alive
    /\ listener
    /\ acc = 0
    /\ cli[c] = "pending"
    /\ cli' = [cli EXCEPT ![c] = "conn"]
    /\ acc' = c
    /\ UNCHANGED << useVTY, stallV, pureV, zomV, ctlV, wireV, childV, pipeClosed, readV, reapV, stV, mu, cmapV, sockV,
                    srvClosed, inbox, dpc, dreply, nreq, sent, mpc, fileV, spc >>

\* acceptConnections: d.clients[conn] = &client{...} under d.mu.Lock, then
\* go d.handleClient(conn).
AcceptRegister(c) ==
    /\ Alive
    /\ acc = c
    /\ c \in Conns
    /\ mu = "free"
    /\ clients' = clients \cup {c}
    /\ attached' = [attached EXCEPT ![c] = FALSE]
    /\ streams' = [streams EXCEPT ![c] = 0]
    /\ dpc' = [dpc EXCEPT ![c] = "read"]
    /\ acc' = 0
    /\ UNCHANGED << useVTY, stallV, pureV, zomV, ctlV, wireV, childV, pipeClosed, readV, reapV, stV, mu, sockV,
                    cli, srvClosed, inbox, dreply, nreq, sent, mpc, fileV, spc >>

(* ----------------------- per-connection dispatcher --------------------- *)
\* Daemon.GetStatus: the fields that change during a run, read under
\* d.mu.RLock (pid, started_at, command and has_vty are fixed at start).
GetStatus == [running |-> running, exit_code |-> exitCode, ended_at |-> endedAt]

\* A snapshot taken without waiting for d.mu.
GetStatusUnlocked == TRUE

\* The RLock of GetStatus is granted while no writer holds d.mu.
GetStatusGranted == mu = "free"

\* handleAttach accepts the stream selectors 1, 2 and 3.
ValidStreams(m) == ~(m = 0 \/ m > StreamBoth)

\* handleClient is blocked in ReadMessage and the client of connection c
\* sends a request: the frame arrives and is dispatched.
Receives(c) ==
    /\ Alive
    /\ dpc[c] = "read"
    /\ cli[c] = "conn"
    /\ ~srvClosed[c]
    /\ nreq < MaxReqs

\* STATUS: handleStatus takes the snapshot.
HandleStatus(c) ==
    /\ Receives(c)
    /\ GetStatusGranted
    /\ dreply' = [dreply EXCEPT ![c] = << WriteStatusResponse(GetStatus) >>]
    /\ dpc' = [dpc EXCEPT ![c] = "write"]
    /\ nreq' = nreq + 1
    /\ UNCHANGED << useVTY, stallV, pureV, zomV, ctlV, wireV, childV, pipeClosed, readV, reapV, stV, mu, cmapV, sockV,
                    cli, srvClosed, inbox, acc, sent, mpc, fileV, spc >>

\* ATTACH with payload byte m, up to the first assignment of handleAttach:
\* an invalid selector is an error for handleClient to report; otherwise
\* d.mu.Lock(); client.attached = true.
HandleAttach(c, m) ==
    /\ Receives(c)
    /\ nreq' = nreq + 1
    /\ IF ValidStreams(m)
         THEN /\ mu = "free"
              /\ mu' = "attach"
              /\ attached' = [attached EXCEPT ![c] = TRUE]
              /\ inbox' = [inbox EXCEPT ![c] = << m >>]
              /\ dpc' = [dpc EXCEPT ![c] = "attach2"]
              /\ UNCHANGED dreply
         ELSE /\ dreply' = [dreply EXCEPT ![c] = << WriteError("invalid stream selector") >>]
              /\ dpc' = [dpc EXCEPT ![c] = "write"]
              /\ UNCHANGED << mu, attached, inbox >>
    /\ UNCHANGED << useVTY, stallV, pureV, zomV, ctlV, wireV, childV, pipeClosed, readV, reapV, stV, clients, streams,
                    sockV, cli, srvClosed, acc, sent, mpc, fileV, spc >>

\* handleAttach: client.streams = streams; d.mu.Unlock()
HandleAttachStreams(c) ==
    /\ Alive
    /\ dpc[c] = "attach2"
    /\ streams' = [streams EXCEPT ![c] = Head(inbox[c])]
    /\ mu' = "free"
    /\ inbox' = [inbox EXCEPT ![c] = << >>]
    /\ dpc' = [dpc EXCEPT ![c] = "read"]
    /\ UNCHANGED << useVTY, stallV, pureV, zomV, ctlV, wireV, childV, pipeClosed, readV, reapV, stV, clients, attached,
                    sockV, cli, srvClosed, dreply, nreq, acc, sent, mpc, fileV, spc >>

\* DETACH: handleDetach sets client.attached = false under d.mu.Lock.
HandleDetach(c) ==
    /\ Receives(c)
    /\ mu = "free"
    /\ attached' = [attached EXCEPT ![c] = FALSE]
    /\ nreq' = nreq + 1
    /\ UNCHANGED << useVTY, stallV, pureV, zomV, ctlV, wireV, childV, pipeClosed, readV, reapV, stV, mu, clients, streams,
                    sockV, cli, srvClosed, inbox, dpc, dreply, acc, sent, mpc, fileV, spc >>

\* A handler of SHUTDOWN that starts stop() without acknowledging.
HandleShutdownUnacked(c) ==
    /\ Receives(c)
    /\ spc' = IF spc = "idle" THEN "start" ELSE spc
    /\ dpc' = [dpc EXCEPT ![c] = "shuterr"]
    /\ nreq' = nreq + 1
    /\ UNCHANGED << useVTY, stallV, pureV, zomV, ctlV, wireV, childV, pipeClosed, readV, reapV, stV, mu, cmapV, sockV,
                    cli, srvClosed, inbox, dreply, acc, sent, mpc, fileV >>

\* SHUTDOWN: handleShutdown writes the acknowledgment, starts go d.stop()
\* (a sync.Once) and returns errShutdown.
HandleShutdown(c) ==
    /\ Receives(c)
    /\ sent' = [sent EXCEPT ![c] = ConnWrite(c, ShutdownAck)]
    /\ spc' = IF spc = "idle" THEN "start" ELSE spc
    /\ dpc' = [dpc EXCEPT ![c] = "shuterr"]
    /\ nreq' = nreq + 1
    /\ UNCHANGED << useVTY, stallV, pureV, zomV, ctlV, wireV, childV, pipeClosed, readV, reapV, stV, mu, cmapV, sockV,
                    cli, srvClosed, inbox, dreply, acc, mpc, fileV >>

\* A dispatcher that, having reported the error of a handler, returns instead
\* of reading the next frame.
DispatchWriteReturn(c) ==
    /\ Alive
    /\ dpc[c] = "write"
    /\ sent' = [sent EXCEPT ![c] = ConnWrite(c, Head(dreply[c]))]
    /\ dreply' = [dreply EXCEPT ![c] = << >>]
    /\ dpc' = [dpc EXCEPT ![c] = IF Head(dreply[c]).type = "ERROR" THEN "exit" ELSE "read"]
    /\ UNCHANGED << useVTY, stallV, pureV, zomV, ctlV, wireV, childV, pipeClosed, readV, reapV, stV, mu, cmapV, sockV,
                    cli, srvClosed, inbox, nreq, acc, mpc, fileV, spc >>

\* handleClient: the reply of handleStatus, or protocol.WriteError for the
\* error a handler returned; neither takes client.writeMu.
DispatchWrite(c) ==
    /\ Alive
    /\ dpc[c] = "write"
    /\ sent' = [sent EXCEPT ![c] = ConnWrite(c, Head(dreply[c]))]
    /\ dreply' = [dreply EXCEPT ![c] = << >>]
    /\ dpc' = [dpc EXCEPT ![c] = "read"]
    /\ UNCHANGED << useVTY, stallV, pureV, zomV, ctlV, wireV, childV, pipeClosed, readV, reapV, stV, mu, cmapV, sockV,
                    cli, srvClosed, inbox, nreq, acc, mpc, fileV, spc >>

\* handleClient after errShutdown: WriteError(conn, err), then return.
DispatchShutdownError(c) ==
    /\ Alive
    /\ dpc[c] = "shuterr"
    /\ sent' = [sent EXCEPT ![c] = ConnWrite(c, WriteError("shutdown requested"))]
    /\ dpc' = [dpc EXCEPT ![c] = "exit"]
    /\ UNCHANGED << useVTY, stallV, pureV, zomV, ctlV, wireV, childV, pipeClosed, readV, reapV, stV, mu, cmapV, sockV,
                    cli, srvClosed, inbox, dreply, nreq, acc, mpc, fileV, spc >>

\* handleClient returns, after errShutdown or because ReadMessage failed (the
\* peer closed, or the daemon closed the connection); its deferred function
\* runs: conn.Close(); delete(d.clients, conn) under d.mu.Lock.
DispatchExit(c) ==
    /\ Alive
    /\ \/ dpc[c] = "exit"
       \/ dpc[c] = "read" /\ (srvClosed[c] \/ cli[c] = "closed")
    /\ mu = "free"
    /\ srvClosed' = [srvClosed EXCEPT ![c] = TRUE]
    /\ clients' = clients \ {c}
    /\ dpc' = [dpc EXCEPT ![c] = "exited"]
    /\ UNCHANGED << useVTY, stallV, pureV, zomV, ctlV, wireV, childV, pipeClosed, readV, reapV, stV, mu, attached, streams,
                    sockV, cli, inbox, dreply, nreq, acc, sent, mpc, fileV, spc >>

(* --------------------------- control requests -------------------------- *)
\* Polls of a wait in one second of timeout: the ticker of waitForExit and
\* waitForForeground fires every 100 ms.
TicksPerSecond == 10

SignalResponse == Frame("SIGNAL_RESPONSE", 0, 0, << >>, {}, "")
ResizeResponse == Frame("RESIZE_RESPONSE", 0, 0, << >>, {}, "")
StdinClosedAck == Frame("STATUS_RESPONSE", 0, 0, << >>, {}, "stdin closed")

\* protocol.WriteWaitResponse: the status is the one payload byte.
WriteWaitResponse(status) == Frame("WAIT_RESPONSE", 0, status, << >>, {}, "")

\* A handler returns: reply r (a response it wrote, or the error handleClient
\* reports with protocol.WriteError) is the next frame of the dispatcher.
Replies(c, r) ==
    /\ dreply' = [dreply EXCEPT ![c] = << r >>]
    /\ dpc' = [dpc EXCEPT ![c] = "write"]

\* handleMessage, default case: a type byte that names no request.
HandleUnknown(c) ==
    /\ Receives(c)
    /\ Replies(c, WriteError("unknown message type"))
    /\ nreq' = nreq + 1
    /\ UNCHANGED << useVTY, stallV, pureV, zomV, ctlV, wireV, childV, pipeClosed, readV, reapV, stV, mu, cmapV,
                    sockV, cli, srvClosed, inbox, acc, sent, mpc, fileV, spc >>

\* SIGNAL with a payload of n bytes, the first being sig: handleSignal up to
\* d.mu.RUnlock().  The signal is sent after the lock is released.
HandleSignal(c, n, sig) ==
    /\ Receives(c)
    /\ nreq' = nreq + 1
    /\ IF n # 1
         THEN /\ Replies(c, WriteError("invalid signal payload length"))
              /\ UNCHANGED inbox
         ELSE /\ mu = "free"
              /\ IF ~running
                   THEN /\ Replies(c, WriteError("process is not running"))
                        /\ UNCHANGED inbox
                   ELSE /\ inbox' = [inbox EXCEPT ![c] = << sig >>]
                        /\ dpc' = [dpc EXCEPT ![c] = "kill"]
                        /\ UNCHANGED dreply
    /\ UNCHANGED << useVTY, stallV, pureV, zomV, ctlV, wireV, childV, pipeClosed, readV, reapV, stV, mu, cmapV,
                    sockV, cli, srvClosed, acc, sent, mpc, fileV, spc >>

\* handleSignal: syscall.Kill(pid, sigNum).  Until cmd.Wait() has returned
\* the PID names the child (a zombie once it has exited) and Kill succeeds.
\* Afterwards the PID is free: Kill fails with ESRCH, or, if the system gave
\* the PID to a new process (recycled), signals that process.
SignalKill(c, recycled) ==
    /\ Alive
    /\ dpc[c] = "kill"
    /\ inbox' = [inbox EXCEPT ![c] = << >>]
    /\ IF wpc = "wait" \/ recycled
         THEN /\ sigs' = Append(sigs, [sig |-> Head(inbox[c]), reaped |-> wpc # "wait"])
              /\ Replies(c, SignalResponse)
         ELSE /\ Replies(c, WriteError("failed to send signal"))
              /\ UNCHANGED sigs
    /\ UNCHANGED << useVTY, stallV, pureV, zomV, winsize, stdinV, wait, fgMain, wireV, childV, pipeClosed, readV,
                    reapV, stV, mu, cmapV, sockV, cli, srvClosed, nreq, acc, sent, mpc,
                    fileV, spc >>

\* A validation that only bounds rows and cols from above.
ValidSizeUpper(rows, cols) == ~(rows > 500 \/ cols > 500)

\* handleResize accepts rows and cols from 1 to 500.
ValidSize(rows, cols) == ~(rows = 0 \/ cols = 0 \/ rows > 500 \/ cols > 500)

\* SIGWINCH, which resizeVTY sends to the foreground group of the PTY.
SIGWINCH == 28

\* RESIZE with a payload of n bytes carrying rows and cols: handleResize and
\* resizeVTY (pty.Setsize fails once stop() has closed the PTY; SIGWINCH goes
\* to the foreground group while d.running is read as true).
HandleResize(c, n, rows, cols) ==
    /\ Receives(c)
    /\ nreq' = nreq + 1
    /\ IF ~useVTY
         THEN Replies(c, WriteError("VTY is not enabled")) /\ UNCHANGED << winsize, sigs >>
         ELSE IF n # 4
         THEN Replies(c, WriteError("invalid resize payload length"))
              /\ UNCHANGED << winsize, sigs >>
         ELSE IF ~ValidSize(rows, cols)
         THEN Replies(c, WriteError("invalid terminal size")) /\ UNCHANGED << winsize, sigs >>
         ELSE IF pipeClosed
         THEN Replies(c, WriteError("failed to resize PTY")) /\ UNCHANGED << winsize, sigs >>
         ELSE /\ mu = "free"
              /\ winsize' = << rows, cols >>
              /\ sigs' = IF running /\ wpc = "wait"
                           THEN Append(sigs, [sig |-> SIGWINCH, reaped |-> FALSE])
                           ELSE sigs
              /\ Replies(c, ResizeResponse)
    /\ UNCHANGED << useVTY, stallV, pureV, zomV, stdinV, wait, fgMain, wireV, childV, pipeClosed, readV, reapV,
                    stV, mu, cmapV, sockV, cli, srvClosed, inbox, acc, sent, mpc, fileV, spc >>

\* A write to the child's stdin reaches the child while it lives and the
\* daemon's end of the conduit (pipe or PTY) is open.
StdinWritable ==
    childAlive /\ ~pipeClosed /\ (useVTY \/ ~stdinPipeClosed)

\* STDIN: handleStdin writes the payload to the PTY (writeVTY) or to
\* d.stdinPipe; it takes no lock, does not look at d.stdinClosed and sends no
\* reply when the write succeeds.
HandleStdin(c) ==
    /\ Receives(c)
    /\ nreq' = nreq + 1
    /\ IF useVTY
         THEN IF StdinWritable
                THEN stdinBytes' = stdinBytes + 1 /\ UNCHANGED << dreply, dpc >>
                ELSE Replies(c, WriteError("failed to write to PTY")) /\ UNCHANGED stdinBytes
         ELSE IF ~stdinPipe
                THEN Replies(c, WriteError("stdin is not available for streaming"))
                     /\ UNCHANGED stdinBytes
         ELSE IF StdinWritable
                THEN stdinBytes' = stdinBytes + 1 /\ UNCHANGED << dreply, dpc >>
                ELSE Replies(c, WriteError("failed to write to stdin")) /\ UNCHANGED stdinBytes
    /\ UNCHANGED << useVTY, stallV, pureV, zomV, sigs, winsize, stdinPipe, stdinClosed, stdinPipeClosed, wait,
                    fgMain, wireV, childV, pipeClosed, readV, reapV, stV, mu, cmapV, sockV,
                    cli, srvClosed, inbox, acc, sent, mpc, fileV, spc >>

\* A handleCloseStdin that does not look at d.stdinClosed.
HandleCloseStdinUnchecked(c) ==
    /\ Receives(c)
    /\ nreq' = nreq + 1
    /\ mu = "free"
    /\ IF ~stdinPipe
         THEN /\ Replies(c, WriteError("stdin is not available for streaming"))
              /\ UNCHANGED stdinClosed
         ELSE /\ stdinClosed' = TRUE
              /\ dpc' = [dpc EXCEPT ![c] = "closepipe"]
              /\ UNCHANGED dreply
    /\ UNCHANGED << useVTY, stallV, pureV, zomV, sigs, winsize, stdinPipe, stdinPipeClosed, stdinBytes, wait,
                    fgMain, wireV, childV, pipeClosed, readV, reapV, stV, mu, cmapV, sockV,
                    cli, srvClosed, inbox, acc, sent, mpc, fileV, spc >>

\* CLOSE_STDIN: handleCloseStdin checks and sets d.stdinClosed under
\* d.mu.Lock; the pipe is closed after the lock is released.
HandleCloseStdin(c) ==
    /\ Receives(c)
    /\ nreq' = nreq + 1
    /\ mu = "free"
    /\ IF ~stdinPipe \/ stdinClosed
         THEN /\ Replies(c, WriteError("stdin is not available for streaming"))
              /\ UNCHANGED stdinClosed
         ELSE /\ stdinClosed' = TRUE
              /\ dpc' = [dpc EXCEPT ![c] = "closepipe"]
              /\ UNCHANGED dreply
    /\ UNCHANGED << useVTY, stallV, pureV, zomV, sigs, winsize, stdinPipe, stdinPipeClosed, stdinBytes, wait,
                    fgMain, wireV, childV, pipeClosed, readV, reapV, stV, mu, cmapV, sockV,
                    cli, srvClosed, inbox, acc, sent, mpc, fileV, spc >>

\* handleCloseStdin: pipe.Close(), which fails if cmd.Wait() or stop() closed
\* the pipe before; then the acknowledgment.
CloseStdinPipe(c) ==
    /\ Alive
    /\ dpc[c] = "closepipe"
    /\ stdinPipeClosed' = TRUE
    /\ IF pipeClosed
         THEN Replies(c, WriteError("failed to close stdin"))
         ELSE Replies(c, StdinClosedAck)
    /\ UNCHANGED << useVTY, stallV, pureV, zomV, sigs, winsize, stdinPipe, stdinClosed, stdinBytes, wait,
                    fgMain, wireV, childV, pipeClosed, readV, reapV, stV, mu, cmapV, sockV,
                    cli, srvClosed, inbox, nreq, acc, sent, mpc, fileV, spc >>

(* --------------------------------- WAIT -------------------------------- *)
\* The condition a wait of type t polls: d.running is false (waitForExit), or
\* getForegroundPgrp() == targetPid (waitForForeground).
WaitCondition(t) == IF t = WaitTypeExit THEN ~running ELSE fgMain

\* The timer of time.After(timeoutSecs * time.Second) has fired.
TimerFired(w) == w.clock >= w.timeout * TicksPerSecond

\* WAIT with a payload of n bytes carrying timeout_secs and wait_type:
\* handleWait, protocol.ParseWait and waitForCondition, up to the start of the
\* polling goroutine and of the timer.  held records whether the condition
\* holds at the moment the timeout has elapsed.
HandleWait(c, n, timeoutSecs, waitType) ==
    /\ Receives(c)
    /\ nreq' = nreq + 1
    /\ IF n # 5
         THEN /\ Replies(c, WriteError("invalid wait payload length"))
              /\ wait' = [wait EXCEPT ![c] = NoWait]
         ELSE IF waitType = WaitTypeExit \/ (waitType = WaitTypeForeground /\ useVTY)
         THEN /\ wait' = [wait EXCEPT ![c] =
                            [type |-> waitType, timeout |-> timeoutSecs, clock |-> 0,
                             polls |-> 0, done |-> FALSE, serving |-> TRUE,
                             held |-> IF timeoutSecs = 0
                                        THEN {WaitCondition(waitType)} ELSE {}]]
              /\ dpc' = [dpc EXCEPT ![c] = "wait"]
              /\ UNCHANGED dreply
         ELSE /\ Replies(c, WriteWaitResponse(WaitStatusNotApplicable))
              /\ wait' = [wait EXCEPT ![c] = [NoWait EXCEPT !.type = waitType,
                                                            !.timeout = timeoutSecs]]
    /\ UNCHANGED << useVTY, stallV, pureV, zomV, sigs, winsize, stdinV, fgMain, wireV, childV, pipeClosed, readV,
                    reapV, stV, mu, cmapV, sockV, cli, srvClosed, inbox, acc, sent, mpc,
                    fileV, spc >>

\* One period of the ticker (100 ms) passes for the wait of connection c.
\* The polling goroutine handles a tick before the next one is due.
WaitClock(c) ==
    /\ Alive
    /\ dpc[c] = "wait"
    /\ ~wait[c].done
    /\ wait[c].polls = wait[c].clock
    /\ ~TimerFired(wait[c])
    /\ wait' = [wait EXCEPT ![c].clock = @ + 1,
                            ![c].held = IF wait[c].clock + 1 = wait[c].timeout * TicksPerSecond
                                          THEN {WaitCondition(wait[c].type)} ELSE @]
    /\ UNCHANGED << useVTY, stallV, pureV, zomV, sigs, winsize, stdinV, fgMain, wireV, childV, pipeClosed, readV,
                    reapV, stV, mu, cmapV, sockV, connV, sent, mpc, fileV, spc >>

\* The polling goroutine receives a tick and polls the condition (d.running
\* under d.mu.RLock, or the foreground group, which cannot be read once
\* stop() has closed the PTY); it returns, closing done, if the condition
\* holds.
WaitPoll(c) ==
    /\ Alive
    /\ dpc[c] = "wait"
    /\ ~wait[c].done
    /\ wait[c].polls < wait[c].clock
    /\ wait[c].type = WaitTypeExit => mu = "free"
    /\ wait' = [wait EXCEPT ![c].polls = @ + 1,
                            ![c].done = /\ WaitCondition(wait[c].type)
                                        /\ wait[c].type = WaitTypeForeground => ~pipeClosed]
    /\ UNCHANGED << useVTY, stallV, pureV, zomV, sigs, winsize, stdinV, fgMain, wireV, childV, pipeClosed, readV,
                    reapV, stV, mu, cmapV, sockV, connV, sent, mpc, fileV, spc >>

\* The select of waitForExit / waitForForeground returns: Completed if done
\* is closed, Timeout if the timer has fired, either if both are ready.
WaitReturn(c, status) ==
    /\ Alive
    /\ dpc[c] = "wait"
    /\ \/ status = WaitStatusCompleted /\ wait[c].done
       \/ status = WaitStatusTimeout /\ TimerFired(wait[c])
    /\ wait' = [wait EXCEPT ![c].serving = FALSE]
    /\ Replies(c, WriteWaitResponse(status))
    /\ UNCHANGED << useVTY, stallV, pureV, zomV, sigs, winsize, stdinV, fgMain, wireV, childV, pipeClosed, readV,
                    reapV, stV, mu, cmapV, sockV, cli, srvClosed, inbox, nreq, acc, sent,
                    mpc, fileV, spc >>

\* The program run by the child hands the terminal to a job (b = FALSE) or
\* takes it back (b = TRUE).
ForegroundChange(b) ==
    /\ useVTY
    /\ childAlive
    /\ fgMain # b
    /\ fgMain' = b
    /\ UNCHANGED << useVTY, stallV, pureV, zomV, sigs, winsize, stdinV, wait, wireV, childV, pipeClosed, readV,
                    reapV, stV, mu, cmapV, sockV, connV, sent, mpc, fileV, spc >>

(* ----------------------------- entry point ----------------------------- *)
\* runDaemonMode: the select returns on <-d.Done().
MainDone ==
    /\ mpc = "select"
    /\ doneCh
    /\ mpc' = "final"
    /\ UNCHANGED << useVTY, stallV, pureV, zomV, ctlV, wireV, childV, pipeClosed, readV, reapV, stV, mu, cmapV, sockV,
                    connV, sent, fileV, spc >>

\* runDaemonMode: the select returns on <-sigCh, the supervisor having been
\* sent SIGINT or SIGTERM.
MainSignal ==
    /\ mpc = "select"
    /\ mpc' = "final"
    /\ UNCHANGED << useVTY, stallV, pureV, zomV, ctlV, wireV, childV, pipeClosed, readV, reapV, stV, mu, cmapV, sockV,
                    connV, sent, fileV, spc >>

\* writeFinalStatus: status := d.GetStatus(); os.Create(statusPath) leaves an
\* empty status.json.
WriteFinalCreate ==
    /\ mpc = "final"
    /\ GetStatusGranted
    /\ mstatus' = {GetStatus}
    /\ statusExists' = ~dirRemoved
    /\ statusContent' = {}
    /\ mpc' = "encode"
    /\ UNCHANGED << useVTY, stallV, pureV, zomV, ctlV, wireV, childV, pipeClosed, readV, reapV, stV, mu, cmapV, sockV,
                    connV, sent, dirRemoved, spc >>

\* writeFinalStatus: encoder.Encode(status) fills the file.
WriteFinalEncode ==
    /\ mpc = "encode"
    /\ statusContent' = (IF statusExists THEN mstatus ELSE {})
    /\ mpc' = "return"
    /\ UNCHANGED << useVTY, stallV, pureV, zomV, ctlV, wireV, childV, pipeClosed, readV, reapV, stV, mu, cmapV, sockV,
                    connV, sent, mstatus, statusExists, dirRemoved, spc >>

\* runDaemonMode returns: the process ends, and with it the listener, every
\* connection and every goroutine.
MainExit ==
    /\ mpc = "return"
    /\ mpc' = "exited"
    /\ listener' = FALSE
    /\ srvClosed' = [c \in Conns |-> TRUE]
    /\ UNCHANGED << useVTY, stallV, pureV, zomV, ctlV, wireV, childV, pipeClosed, readV, reapV, stV, mu, cmapV,
                    sockFile, closeCh, doneCh, cli, inbox, dpc, dreply, nreq, acc,
                    sent, fileV, spc >>

(* -------------------------------- stop --------------------------------- *)
\* stop(): close(d.closeCh); d.listener.Close(), which for a listener made by
\* net.Listen("unix", ...) also unlinks the socket file.
StopListener ==
    /\ Alive
    /\ spc = "start"
    /\ closeCh' = TRUE
    /\ listener' = FALSE
    /\ sockFile' = FALSE
    /\ spc' = "conns"
    /\ UNCHANGED << useVTY, stallV, pureV, zomV, ctlV, wireV, childV, pipeClosed, readV, reapV, stV, mu, cmapV,
                    doneCh, connV, sent, mpc, fileV >>

\* stop(): copy the connections of d.clients under d.mu.Lock and close them.
StopConns ==
    /\ Alive
    /\ spc = "conns"
    /\ mu = "free"
    /\ srvClosed' = [c \in Conns |-> srvClosed[c] \/ c \in clients]
    /\ spc' = "files"
    /\ UNCHANGED << useVTY, stallV, pureV, zomV, ctlV, wireV, childV, pipeClosed, readV, reapV, stV, mu, cmapV, sockV,
                    cli, inbox, dpc, dreply, nreq, acc, sent, mpc, fileV >>

\* A stop() that also terminates the child and marks it as not running.
StopFilesKill ==
    /\ Alive
    /\ spc = "files"
    /\ pipeClosed' = TRUE
    /\ sockFile' = FALSE
    /\ spc' = "done"
    /\ sigs' = Append(sigs, [sig |-> 15, reaped |-> wpc # "wait"])
    /\ running' = FALSE
    /\ UNCHANGED << useVTY, stallV, pureV, zomV, winsize, stdinV, wait, fgMain, wireV, childV, readV, reapV,
                    exitCode, endedAt, mu, cmapV, listener, closeCh, doneCh, connV, sent,
                    mpc, fileV >>

\* stop(): close the pipes, the files and the PTY; os.Remove(d.socketPath).
StopFiles ==
    /\ Alive
    /\ spc = "files"
    /\ pipeClosed' = TRUE
    /\ sockFile' = FALSE
    /\ spc' = "done"
    /\ UNCHANGED << useVTY, stallV, pureV, zomV, ctlV, wireV, childV, readV, reapV, stV, mu, cmapV, listener, closeCh,
                    doneCh, connV, sent, mpc, fileV >>

(* ------------------- WriteMessage, one write at a time ------------------ *)
\* The actions of this section split the write of a frame into the writes
\* WriteMessage issues and log them in wire; they leave sent, the log of
\* whole frames, alone.
\* protocol.WriteMessage issues three writes on the connection: the length,
\* the type byte and the payload.
WriteMessageWrites == 3

\* The goroutine that reads stream s.
WriterOf(s) == IF s = StreamStdout THEN "handleStdout" ELSE "handleStderr"

\* Connection c after goroutine `by` issued write number n of its frame.
WirePart(c, by, n) ==
    IF ConnWritable(c) THEN Append(wire[c], [by |-> by, part |-> n]) ELSE wire[c]

\* broadcastOutput: client.writeMu.Lock()
BroadcastLock(s, c) ==
    /\ Alive
    /\ rpc[s] = "iter"
    /\ rsel[s] = c
    /\ c \in Conns
    /\ writeMu[c] = "free"
    /\ writeMu' = [writeMu EXCEPT ![c] = WriterOf(s)]
    /\ UNCHANGED << useVTY, stallV, pureV, zomV, ctlV, wire, wprog, dprog, childV, pipeClosed, readV, reapV, stV, mu,
                    cmapV, sockV, connV, sent, mpc, fileV, spc >>

\* broadcastOutput: one write of protocol.WriteOutput (WriteMessage returns
\* at the first write that fails).
BroadcastWritePart(s, c) ==
    /\ Alive
    /\ writeMu[c] = WriterOf(s)
    /\ wprog[WriterOf(s)] < WriteMessageWrites
    /\ wire' = [wire EXCEPT ![c] = WirePart(c, WriterOf(s), wprog[WriterOf(s)] + 1)]
    /\ wprog' = [wprog EXCEPT ![WriterOf(s)] =
                    IF ConnWritable(c) THEN @ + 1 ELSE WriteMessageWrites]
    /\ UNCHANGED << useVTY, stallV, pureV, zomV, ctlV, writeMu, dprog, childV, pipeClosed, readV, reapV, stV, mu,
                    cmapV, sockV, connV, sent, mpc, fileV, spc >>

\* broadcastOutput: client.writeMu.Unlock(), on to the next client.
BroadcastUnlock(s, c) ==
    /\ Alive
    /\ writeMu[c] = WriterOf(s)
    /\ wprog[WriterOf(s)] = WriteMessageWrites
    /\ writeMu' = [writeMu EXCEPT ![c] = "free"]
    /\ wprog' = [wprog EXCEPT ![WriterOf(s)] = 0]
    /\ ReaderNext(s, c)
    /\ UNCHANGED << useVTY, stallV, pureV, zomV, ctlV, wire, dprog, childV, pipeClosed, rcount, reapV, stV, mu,
                    cmapV, sockV, connV, sent, mpc, fileV, spc >>

\* broadcastProcessExit: client.writeMu.Lock()
ExitLock(c) ==
    /\ Alive
    /\ wpc = "iter"
    /\ c \in wlist
    /\ \A b \in Conns : writeMu[b] # "waitForProcess"
    /\ writeMu[c] = "free"
    /\ writeMu' = [writeMu EXCEPT ![c] = "waitForProcess"]
    /\ UNCHANGED << useVTY, stallV, pureV, zomV, ctlV, wire, wprog, dprog, childV, pipeClosed, readV, reapV, stV, mu,
                    cmapV, sockV, connV, sent, mpc, fileV, spc >>

\* broadcastProcessExit: one write of protocol.WriteProcessExit.
ExitWritePart(c) ==
    /\ Alive
    /\ writeMu[c] = "waitForProcess"
    /\ wprog["waitForProcess"] < WriteMessageWrites
    /\ wire' = [wire EXCEPT ![c] = WirePart(c, "waitForProcess", wprog["waitForProcess"] + 1)]
    /\ wprog' = [wprog EXCEPT !["waitForProcess"] =
                    IF ConnWritable(c) THEN @ + 1 ELSE WriteMessageWrites]
    /\ UNCHANGED << useVTY, stallV, pureV, zomV, ctlV, writeMu, dprog, childV, pipeClosed, readV, reapV, stV, mu,
                    cmapV, sockV, connV, sent, mpc, fileV, spc >>

\* broadcastProcessExit: client.writeMu.Unlock(), on to the next client.
ExitUnlock(c) ==
    /\ Alive
    /\ writeMu[c] = "waitForProcess"
    /\ wprog["waitForProcess"] = WriteMessageWrites
    /\ writeMu' = [writeMu EXCEPT ![c] = "free"]
    /\ wprog' = [wprog EXCEPT !["waitForProcess"] = 0]
    /\ wlist' = wlist \ {c}
    /\ wpc' = IF wlist \ {c} = {} THEN "rmsock" ELSE "iter"
    /\ UNCHANGED << useVTY, stallV, pureV, zomV, ctlV, wire, dprog, childV, pipeClosed, readV, stV, mu,
                    cmapV, sockV, connV, sent, mpc, fileV, spc >>

\* handleClient / handleStatus: one write of the reply; client.writeMu is not
\* taken.
DispatchWritePart(c) ==
    /\ Alive
    /\ dpc[c] = "write"
    /\ dprog[c] < WriteMessageWrites
    /\ wire' = [wire EXCEPT ![c] = WirePart(c, "handleClient", dprog[c] + 1)]
    /\ dprog' = [dprog EXCEPT ![c] = IF ConnWritable(c) THEN @ + 1 ELSE WriteMessageWrites]
    /\ UNCHANGED << useVTY, stallV, pureV, zomV, ctlV, writeMu, wprog, childV, pipeClosed, readV, reapV, stV, mu,
                    cmapV, sockV, connV, sent, mpc, fileV, spc >>

\* handleClient: the reply is written, back to ReadMessage.
DispatchWriteEnd(c) ==
    /\ Alive
    /\ dpc[c] = "write"
    /\ dprog[c] = WriteMessageWrites
    /\ dprog' = [dprog EXCEPT ![c] = 0]
    /\ dreply' = [dreply EXCEPT ![c] = << >>]
    /\ dpc' = [dpc EXCEPT ![c] = "read"]
    /\ UNCHANGED << useVTY, stallV, pureV, zomV, ctlV, writeMu, wire, wprog, childV, pipeClosed, readV, reapV, stV,
                    mu, cmapV, sockV, cli, srvClosed, inbox, nreq, acc, sent, mpc, fileV,
                    spc >>

(* --------------------------- specifications ---------------------------- *)
\* The child exits and the reap watcher runs to its end.
Reap ==
    \/ \E e \in WaitErrs : ChildExit(e)
    \/ WaitReturns
    \/ ReapSetRunning
    \/ ReapSetEndedAt
    \/ ReapSetExitCode
    \/ ExitSnapshot
    \/ \E c \in Conns : ExitWrite(c)
    \/ ReapRemoveSocket
    \/ ReapCloseDone

\* The output readers broadcast what they read.
Broadcast ==
    \/ \E s \in Streams : ReaderRead(s)
    \/ \E s \in Streams : BroadcastSnapshot(s)
    \/ \E s \in Streams, c \in Conns : BroadcastCheck(s, c)
    \/ \E s \in Streams, c \in Conns : BroadcastWrite(s, c)

\* Output fan-out: attached clients receive what the readers broadcast and
\* the exit the reap watcher announces, and may disconnect at any time.
NextFanout ==
    \/ Reap
    \/ Broadcast
    \/ \E c \in Conns : ClientClose(c)
    \/ \E c \in Conns : DispatchExit(c)

SpecFanout == InitAttached /\ [][NextFanout]_vars

(* ------------------ a client that stops reading ------------------------- *)
\* A client that stays connected and no longer reads from its connection
\* (Attach returns and ReadMessages is not called, or its handler never
\* returns); what the daemon has written to it has filled the socket buffers.
ClientStall(c) ==
    /\ Alive
    /\ cli[c] = "conn"
    /\ ~stalled[c]
    /\ sent[c] # << >>
    /\ stalled' = [stalled EXCEPT ![c] = TRUE]
    /\ UNCHANGED << useVTY, wsel, pureV, zomV, ctlV, wireV, childV, pipeClosed, readV, reapV, stV, mu, cmapV,
                    sockV, connV, sent, mpc, fileV, spc >>

\* The steps of the reader goroutine of stream s.
ReaderStep(s) ==
    \/ ReaderRead(s)
    \/ BroadcastSnapshot(s)
    \/ \E c \in Conns : BroadcastCheck(s, c)
    \/ \E c \in Conns : BroadcastWrite(s, c)

\* Fan-out to attached clients of which any may stop reading.
NextStall ==
    \/ Reap
    \/ Broadcast
    \/ \E c \in Conns : ExitWriteWaits(c)
    \/ \E c \in Conns : ClientStall(c)

\* Every goroutine of the daemon that can take a step eventually takes one.
SpecStall ==
    /\ InitAttached
    /\ [][NextStall]_vars
    /\ WF_vars(Reap \/ \E c \in Conns : ExitWriteWaits(c))
    /\ \A s \in Streams : WF_vars(ReaderStep(s))

\* Attachment: connected clients attach, change their selector, detach and
\* disconnect while the readers broadcast.
NextAttach ==
    \/ \E e \in WaitErrs : ChildExit(e)
    \/ Broadcast
    \/ \E c \in Conns, m \in 1..StreamBoth : HandleAttach(c, m)
    \/ \E c \in Conns : HandleAttachStreams(c)
    \/ \E c \in Conns : HandleDetach(c)
    \/ \E c \in Conns : ClientClose(c)
    \/ \E c \in Conns : DispatchExit(c)

SpecAttach == InitConnected /\ [][NextAttach]_vars

\* Lifecycle: clients come and go, ask for the status and for a shutdown,
\* while the child exits, the reap watcher runs and the entry point writes
\* the tombstone.
NextLife ==
    \/ Reap
    \/ \E c \in Conns : New(c)
    \/ \E c \in Conns : Accept(c)
    \/ \E c \in Conns : AcceptRegister(c)
    \/ \E c \in Conns : ClientClose(c)
    \/ \E c \in Conns : ReapZombie(c)
    \/ \E c \in Conns : HandleStatus(c)
    \/ \E c \in Conns : DispatchWrite(c)
    \/ \E c \in Conns : HandleShutdown(c)
    \/ \E c \in Conns : DispatchShutdownError(c)
    \/ \E c \in Conns : DispatchExit(c)
    \/ StopListener
    \/ StopConns
    \/ StopFiles
    \/ MainDone
    \/ WriteFinalCreate
    \/ WriteFinalEncode
    \/ MainExit

SpecLife == Init /\ [][NextLife]_vars

\* The wire: replies, OUTPUT frames and the PROCESS_EXIT frame reach attached
\* clients, each frame as the three writes of WriteMessage.
NextWire ==
    \/ \E e \in WaitErrs : ChildExit(e)
    \/ \E s \in Streams : ReaderRead(s)
    \/ \E s \in Streams : BroadcastSnapshot(s)
    \/ \E s \in Streams, c \in Conns : BroadcastCheck(s, c)
    \/ \E s \in Streams, c \in Conns : BroadcastLock(s, c)
    \/ \E s \in Streams, c \in Conns : BroadcastWritePart(s, c)
    \/ \E s \in Streams, c \in Conns : BroadcastUnlock(s, c)
    \/ WaitReturns
    \/ ReapSetRunning
    \/ ReapSetEndedAt
    \/ ReapSetExitCode
    \/ ExitSnapshot
    \/ \E c \in Conns : ExitLock(c)
    \/ \E c \in Conns : ExitWritePart(c)
    \/ \E c \in Conns : ExitUnlock(c)
    \/ ReapRemoveSocket
    \/ ReapCloseDone
    \/ \E c \in Conns : HandleStatus(c)
    \/ \E c \in Conns : DispatchWritePart(c)
    \/ \E c \in Conns : DispatchWriteEnd(c)

\* A daemon in VTY mode (all output arrives on one conduit, the PTY) to which
\* the first client has connected and attached for both streams.
InitWire ==
    /\ Started
    /\ useVTY
    /\ clients = {1}
    /\ attached = [c \in Conns |-> c = 1]
    /\ streams = [c \in Conns |-> IF c = 1 THEN StreamBoth ELSE 0]
    /\ cli = [c \in Conns |-> IF c = 1 THEN "conn" ELSE "idle"]
    /\ dpc = [c \in Conns |-> IF c = 1 THEN "read" ELSE "none"]

SpecWire == InitWire /\ [][NextWire]_vars

\* Every connection is registered and has sent nothing yet; the child's stdin
\* is streamed from the socket or not (in VTY mode the PTY is its stdin).
InitControl ==
    /\ \E streamed \in BOOLEAN : StartedStdin(streamed) /\ (useVTY => ~streamed)
    /\ clients = Conns
    /\ attached = [c \in Conns |-> FALSE]
    /\ streams = [c \in Conns |-> 0]
    /\ cli = [c \in Conns |-> "conn"]
    /\ dpc = [c \in Conns |-> "read"]

\* Payload lengths, signal numbers, terminal sizes, stream selectors and wait
\* types that requests carry.
SignalLens == {1, 2}
Signals    == {15}
ResizeLens == {3, 4}
Sizes      == {0, 30, 501}
Selectors  == 0..(StreamBoth + 1)
WaitLens   == {4, 5}
WaitTypes  == {WaitTypeExit, WaitTypeForeground, 2}

\* The requests of the protocol, handled one after the other by the
\* dispatcher of each connection.
Requests ==
    \/ \E c \in Conns : HandleStatus(c)
    \/ \E c \in Conns : HandleUnknown(c)
    \/ \E c \in Conns, n \in SignalLens, sig \in Signals : HandleSignal(c, n, sig)
    \/ \E c \in Conns, recycled \in BOOLEAN : SignalKill(c, recycled)
    \/ \E c \in Conns, n \in ResizeLens, rows \in Sizes, cols \in Sizes :
          HandleResize(c, n, rows, cols)
    \/ \E c \in Conns, m \in Selectors : HandleAttach(c, m)
    \/ \E c \in Conns : HandleAttachStreams(c)
    \/ \E c \in Conns : HandleDetach(c)
    \/ \E c \in Conns : HandleStdin(c)
    \/ \E c \in Conns : HandleCloseStdin(c)
    \/ \E c \in Conns : CloseStdinPipe(c)
    \/ \E c \in Conns : DispatchWrite(c)

\* Control: connected clients send any request, valid or not, and the child
\* may exit.  A WAIT here has timeout_secs = 0.
NextControl ==
    \/ \E e \in WaitErrs : ChildExit(e)
    \/ Requests
    \/ \E c \in Conns, n \in WaitLens, t \in WaitTypes : HandleWait(c, n, 0, t)
    \/ \E c \in Conns, st \in {WaitStatusCompleted, WaitStatusTimeout} : WaitReturn(c, st)
    \/ \E c \in Conns : HandleShutdown(c)
    \/ \E c \in Conns : DispatchShutdownError(c)
    \/ StopListener
    \/ StopConns
    \/ StopFiles
    \/ \E c \in Conns : ClientClose(c)
    \/ \E c \in Conns : DispatchExit(c)

SpecControl == InitControl /\ [][NextControl]_vars

\* Signals: the one client of InitWire sends STATUS, SIGNAL, RESIZE and WAIT
\* requests while output is broadcast, the child exits and the reap watcher
\* runs.
NextSignal ==
    \/ Reap
    \/ Broadcast
    \/ \E c \in Conns : HandleStatus(c)
    \/ \E c \in Conns, sig \in Signals : HandleSignal(c, 1, sig)
    \/ \E c \in Conns, recycled \in BOOLEAN : SignalKill(c, recycled)
    \/ \E c \in Conns : HandleResize(c, 4, 30, 30)
    \/ \E c \in Conns, t \in WaitTypes : HandleWait(c, 5, 0, t)
    \/ \E c \in Conns, st \in {WaitStatusCompleted, WaitStatusTimeout} : WaitReturn(c, st)
    \/ \E c \in Conns : DispatchWrite(c)
    \/ \E c \in Conns : ClientClose(c)
    \/ \E c \in Conns : DispatchExit(c)

SpecSignal == InitWire /\ [][NextSignal]_vars

\* The first client has connected and has sent nothing yet.
InitWait ==
    /\ Started
    /\ clients = {1}
    /\ attached = [c \in Conns |-> FALSE]
    /\ streams = [c \in Conns |-> 0]
    /\ cli = [c \in Conns |-> IF c = 1 THEN "conn" ELSE "idle"]
    /\ dpc = [c \in Conns |-> IF c = 1 THEN "read" ELSE "none"]

\* Waiting: the client sends WAIT requests of both wait types, with a timeout
\* or none, while time passes, the child gives and takes the terminal, exits
\* and is reaped.
NextWait ==
    \/ Reap
    \/ \E b \in BOOLEAN : ForegroundChange(b)
    \/ \E c \in Conns, secs \in 0..MaxTimeout, t \in {WaitTypeExit, WaitTypeForeground} :
          HandleWait(c, 5, secs, t)
    \/ \E c \in Conns : WaitClock(c)
    \/ \E c \in Conns : WaitPoll(c)
    \/ \E c \in Conns, st \in {WaitStatusCompleted, WaitStatusTimeout} : WaitReturn(c, st)
    \/ \E c \in Conns : DispatchWrite(c)

SpecWait == InitWait /\ [][NextWait]_vars

\* Waiting at shutdown: connected clients send WAIT requests of both types and
\* SHUTDOWN; time passes, stop() runs, the child keeps running.
NextWaitStop ==
    \/ \E b \in BOOLEAN : ForegroundChange(b)
    \/ \E c \in Conns, secs \in 0..MaxTimeout, t \in {WaitTypeExit, WaitTypeForeground} :
          HandleWait(c, 5, secs, t)
    \/ \E c \in Conns : WaitClock(c)
    \/ \E c \in Conns : WaitPoll(c)
    \/ \E c \in Conns, st \in {WaitStatusCompleted, WaitStatusTimeout} : WaitReturn(c, st)
    \/ \E c \in Conns : HandleShutdown(c)
    \/ \E c \in Conns : DispatchShutdownError(c)
    \/ StopListener
    \/ StopConns
    \/ StopFiles
    \/ \E c \in Conns : DispatchWrite(c)
    \/ \E c \in Conns : DispatchExit(c)

SpecWaitStop == InitConnected /\ [][NextWaitStop]_vars

\* Tombstone: the child writes output and exits, the reap watcher runs with
\* nobody connected (broadcastProcessExit has no one to write to), the entry
\* point publishes status.json and returns, while clients construct by PID
\* and, in tombstone mode, wait.
NextTombstone ==
    \/ \E e \in WaitErrs : ChildExit(e)
    \/ WaitReturns
    \/ ReapSetRunning
    \/ ReapSetEndedAt
    \/ ReapSetExitCode
    \/ ExitSnapshot
    \/ ReapRemoveSocket
    \/ ReapCloseDone
    \/ \E s \in Streams : ReaderRead(s)
    \/ \E s \in Streams : BroadcastSnapshot(s)
    \/ MainDone
    \/ WriteFinalCreate
    \/ WriteFinalEncode
    \/ MainExit
    \/ \E c \in Conns : New(c)
    \/ \E c \in Conns, secs \in 0..MaxTimeout, t \in WaitTypes : ClientWaitZombie(c, secs, t)

SpecTombstone == Init /\ [][NextTombstone]_vars

\* The entry point: the same, and the supervisor may be sent SIGINT or SIGTERM.
NextMain ==
    \/ NextTombstone
    \/ MainSignal

SpecMain == Init /\ [][NextMain]_vars

(* ------------------ the protocol package on one stream ------------------ *)
MaxFrames == 2

\* Byte strings longer than this are put on an empty stream only: behind bytes
\* that leave the reader out of step with the frames, it would take them in
\* as millions of length fields, four bytes at a time.
LongChunk == 64

\* The stream can take the bytes b.
Room(b) ==
    /\ rchunks < MaxFrames
    /\ ByteLen(b) > LongChunk => rstream = << >>

\* Bit widths of int among the builds of the Go toolchain.
IntSizes == { 32, 64 }

MsgTypes == { 0, MsgStatus, MsgOutput, MsgProcessExit, 255 }

\* Payloads: empty, single bytes, a mixed one, the longest that ReadMessage
\* accepts and one of the shortest it refuses (of 10 MiB; its first bytes are
\* length fields, so that a reader that goes on after the refusal is through
\* with the stream in two more reads).
Payloads ==
    { << >>, Bytes(<< 0 >>), Bytes(<< 255 >>), Bytes(<< 0, 255, 65 >>),
      Run(65, MaxMessageLength - 1),
      Cat(Bytes(<< 160, 0, 0, 0, 160, 0, 0 >>), Run(65, MaxMessageLength - 7)) }

\* Bytes that something other than WriteMessage puts on the stream: length
\* fields cut short, of 0, of 1 without a type byte, above the limit (alone and
\* followed by that many bytes and more), and a frame cut in its payload.
RawChunks ==
    { Bytes(<< 0, 0, 0 >>), Bytes(<< 0, 0, 0, 0 >>), Bytes(<< 0, 0, 0, 1 >>),
      Bytes(<< 255, 255, 255, 255 >>),
      Cat(Bytes(<< 0, 160, 0, 1 >>), WriteMessage(MsgStatus, Run(65, MaxMessageLength - 1))),
      Bytes(<< 0, 0, 0, 3, 129, 1 >>) }

ExitCodes == { 0, 1, 42, 255, -1, -2, 2147483647, (-2147483647) - 1 }

DaemonIdle ==
    UNCHANGED << useVTY, stallV, zomV, ctlV, wireV, childV, pipeClosed, readV, reapV, stV, mu, cmapV,
                 sockV, connV, sent, mpc, fileV, spc >>

\* protocol.WriteMessage(w, msgType, payload) on the stream's writer.
DoWriteMessage(msgType, payload) ==
    /\ Room(payload)
    /\ rchunks' = rchunks + 1
    /\ wlast' = IF rstream = << >> THEN { [type |-> msgType, payload |-> payload] } ELSE {}
    /\ rstream' = Cat(rstream, WriteMessage(msgType, payload))
    /\ exitIn' = {}
    /\ exitParsed' = {}
    /\ UNCHANGED << intSize, rmsg, term, cellV >>
    /\ DaemonIdle

\* protocol.WriteProcessExit(w, exitCode)
DoWriteProcessExit(code) ==
    /\ rchunks < MaxFrames
    /\ rchunks' = rchunks + 1
    /\ wlast' = IF rstream = << >>
                THEN { [type |-> MsgProcessExit, payload |-> Bytes(PutUint32(code))] } ELSE {}
    /\ rstream' = Cat(rstream, WriteMessage(MsgProcessExit, Bytes(PutUint32(code))))
    /\ exitIn' = IF rstream = << >> THEN { code } ELSE {}
    /\ exitParsed' = {}
    /\ UNCHANGED << intSize, rmsg, term, cellV >>
    /\ DaemonIdle

\* Bytes arrive on the stream that no WriteMessage wrote.
Feed(chunk) ==
    /\ Room(chunk)
    /\ rchunks' = rchunks + 1
    /\ rstream' = Cat(rstream, chunk)
    /\ wlast' = {}
    /\ exitIn' = {}
    /\ exitParsed' = {}
    /\ UNCHANGED << intSize, rmsg, term, cellV >>
    /\ DaemonIdle

\* protocol.ReadMessage(r) on the stream's reader.
DoReadMessage ==
    /\ LET m == ReadMessage(rstream)
       IN /\ rmsg' = [err |-> m.err, type |-> m.type, payload |-> m.payload]
          /\ rstream' = m.rest
          /\ rchunks' = IF m.rest = << >> THEN 0 ELSE rchunks
    /\ wlast' = {}
    /\ exitParsed' = {}
    /\ UNCHANGED << intSize, exitIn, term, cellV >>
    /\ DaemonIdle

\* protocol.ParseProcessExit(msg.Payload) on the PROCESS_EXIT just read.
DoParseProcessExit ==
    /\ rmsg.err = ""
    /\ rmsg.type = MsgProcessExit
    /\ exitParsed = {}
    /\ exitParsed' = { ParseProcessExit(rmsg.payload, intSize) }
    /\ UNCHANGED << intSize, rstream, rmsg, wlast, rchunks, exitIn, term, cellV >>
    /\ DaemonIdle

InitCodec ==
    /\ DaemonStarted(FALSE)
    /\ clients = {}
    /\ attached = [c \in Conns |-> FALSE]
    /\ streams = [c \in Conns |-> 0]
    /\ cli = [c \in Conns |-> "idle"]
    /\ dpc = [c \in Conns |-> "none"]
    /\ useVTY = FALSE
    /\ intSize \in IntSizes
    /\ CodecIdle
    /\ TermIdle

NextCodec ==
    \/ \E t \in MsgTypes, p \in Payloads : DoWriteMessage(t, p)
    \/ \E code \in ExitCodes : DoWriteProcessExit(code)
    \/ \E chunk \in RawChunks : Feed(chunk)
    \/ DoReadMessage
    \/ DoParseProcessExit

SpecCodec == InitCodec /\ [][NextCodec]_vars

(* ------------------------ the terminal emulator at work ----------------- *)
MaxBuf == 2
MaxCursor == 11

TermRows == { 1, 2 }
TermCols == { 2, 9 }

\* Bytes written to the terminal: controls, a printable byte, the bytes of CSI
\* and OSC sequences.
TermBytes ==
    { BEL, BS, HT, LF, CR, ESC } \cup
    { Byte(ch) : ch \in { "-", "2", ";", "A", "B", "C", "D", "H", "J", "K", "M",
                          "[", "\\", "]", "x" } }

\* Inside a CSI sequence the model writes parameter bytes and final bytes.
CsiBytes ==
    { Byte(ch) : ch \in { "-", "2", ";", "A", "B", "C", "D", "H", "J", "K", "M", "x" } }

\* Line feeds, carriage returns and a printable byte.
PlainBytes == { LF, CR, Byte("x") }

CodecUnchanged == UNCHANGED codecV

\* Terminal.Write(data) for one byte of data, b.  The parameter buffer and the
\* cursor, which "ESC [ - 2 A" moves down without a limit, are kept within the
\* bounds.
Write(b) ==
    /\ term.state # "panic"
    /\ term.state = "csi" => b \in CsiBytes
    /\ (term.state = "csi" /\ ~ IsFinal(b)) => Len(term.buf) < MaxBuf
    /\ term' = processByte(term, b)
    /\ term'.cursorRow \in (0 - MaxCursor)..MaxCursor
    /\ term'.cursorCol \in (0 - MaxCursor)..MaxCursor
    /\ UNCHANGED cellV
    /\ CodecUnchanged
    /\ DaemonIdle

\* Terminal.Resize(rows, cols), with a size that handleResize lets through.
TerminalResize(rows, cols) ==
    /\ term.state # "panic"
    /\ term' = Resize(term, rows, cols)
    /\ UNCHANGED cellV
    /\ CodecUnchanged
    /\ DaemonIdle

InitDaemonIdle ==
    /\ DaemonStarted(FALSE)
    /\ clients = {}
    /\ attached = [c \in Conns |-> FALSE]
    /\ streams = [c \in Conns |-> 0]
    /\ cli = [c \in Conns |-> "idle"]
    /\ dpc = [c \in Conns |-> "none"]
    /\ useVTY = TRUE
    /\ intSize = 64
    /\ CodecIdle

\* A terminal of a small size whose scrollback keeps two lines, as
\* TestMultipleScrollback sets it up.
InitTerm ==
    /\ InitDaemonIdle
    /\ \E rows \in TermRows, cols \in TermCols :
          term = [NewTerminal(rows, cols) EXCEPT !.maxScrollback = 2]
    /\ CellsIdle

NextTerm ==
    \/ \E b \in TermBytes : Write(b)
    \/ \E rows \in TermRows, cols \in TermCols : TerminalResize(rows, cols)

SpecTerm == InitTerm /\ [][NextTerm]_vars

\* A terminal as NewTerminal makes it, with room for 1000 lines of
\* scrollback, that is written plain text and resized.
InitScroll ==
    /\ InitDaemonIdle
    /\ \E rows \in TermRows, cols \in TermCols : term = NewTerminal(rows, cols)
    /\ CellsIdle

NextScroll ==
    \/ \E b \in PlainBytes : Write(b)
    \/ \E rows \in TermRows, cols \in TermCols : TerminalResize(rows, cols)

SpecScroll == InitScroll /\ [][NextScroll]_vars

\* Terminal.Write(data) on a terminal whose cells are followed, for at most
\* max calls.
WriteData(data, max) ==
    /\ term.state # "panic"
    /\ twrites < max
    /\ LET tg == parse([t |-> term, g |-> cells], data)
       IN term' = tg.t /\ cells' = tg.g
    /\ twrites' = twrites + 1
    /\ CodecUnchanged
    /\ DaemonIdle

MaxWrites == 7
MaxPen == 5

\* Plain text: two printable bytes, line feed and carriage return, written
\* to a terminal of one or three rows whose scrollback keeps two lines.
CellRows == { 1, 3 }
CellCols == { 2 }
CellChars == { Byte("A"), Byte("x") }
PlainChunks == { << b >> : b \in CellChars \cup { LF, CR } }

InitCells ==
    /\ InitDaemonIdle
    /\ \E rows \in CellRows, cols \in CellCols :
          /\ term = [NewTerminal(rows, cols) EXCEPT !.maxScrollback = 2]
          /\ cells = NewCells(rows, cols)
    /\ twrites = 0

NextCells == \E data \in PlainChunks : WriteData(data, MaxWrites)

SpecCells == InitCells /\ [][NextCells]_vars

\* SGR sequences: parameter lists without 38 and 48, and the two forms that
\* follow 38 or 48, alone or before another parameter.
PlainLists == { << >>, << 1 >>, << 1, 3, 31, 44 >>, << 1, 0, 4 >>, << 44, 0 >> }
ExtForms ==
    [intro : { 38, 48 }, sub : { << 5, 1 >>, << 5, 200 >>, << 2, 1, 4, 7 >> },
     post : { << >>, << 3 >> }]
ExtList(e) == << e.intro >> \o e.sub \o e.post
PenChunks ==
    { << Byte("x") >> } \cup { Sgr(ps) : ps \in PlainLists }
        \cup { Sgr(ExtList(e)) : e \in ExtForms }

InitPen ==
    /\ InitDaemonIdle
    /\ term = NewTerminal(1, 4)
    /\ cells = NewCells(1, 4)
    /\ twrites = 0

NextPen == \E data \in PenChunks : WriteData(data, MaxPen)

SpecPen == InitPen /\ [][NextPen]_vars

\* The steps of runDaemonMode once the select has returned.
MainStep ==
    \/ MainDone
    \/ WriteFinalCreate
    \/ WriteFinalEncode
    \/ MainExit

\* Sessions: connected clients attach, before or after the child exits, and
\* any of them may stop reading, while the reader of stdout broadcasts, the
\* reap watcher runs and the entry point returns.
NextSession ==
    \/ Reap
    \/ ReaderRead(StreamStdout)
    \/ BroadcastSnapshot(StreamStdout)
    \/ \E c \in Conns : BroadcastCheck(StreamStdout, c)
    \/ \E c \in Conns : BroadcastWrite(StreamStdout, c)
    \/ \E c \in Conns : ExitWriteWaits(c)
    \/ \E c \in Conns, m \in 1..StreamBoth : HandleAttach(c, m)
    \/ \E c \in Conns : HandleAttachStreams(c)
    \/ MainDone
    \/ WriteFinalCreate
    \/ WriteFinalEncode
    \/ MainExit
    \/ \E c \in Conns : ClientStall(c)

\* Every goroutine of the daemon that can take a step eventually takes one.
SpecSession ==
    /\ InitConnected
    /\ [][NextSession]_vars
    /\ WF_vars(Reap \/ \E c \in Conns : ExitWriteWaits(c))
    /\ WF_vars(MainStep)
    /\ WF_vars(ReaderStep(StreamStdout))
    /\ \A c \in Conns : WF_vars(HandleAttachStreams(c))

(* ----------------------- calls of the client library ------------------- *)
\* What a call of the client library returns: err = "" and the response it
\* was waiting for, or an error; "blocked" while ReadMessage has no frame.
Returned(err, msgs) == [err |-> err, msg |-> msgs]

\* The read of Client.SendSignal and Client.Resize: one ReadMessage; the frame
\* is the response of type want, or the call fails.
ReadOnce(frames, want) ==
    IF frames = << >> THEN Returned("blocked", {})
    ELSE IF Head(frames).type = "ERROR" THEN Returned("server error", {})
    ELSE IF Head(frames).type # want THEN Returned("unexpected response type", {})
    ELSE Returned("", {Head(frames)})

\* The read loop of Client.GetStatus and Client.Wait: ReadMessage until a
\* frame is neither PROCESS_EXIT nor OUTPUT.
RECURSIVE ReadLoop(_, _)
ReadLoop(frames, want) ==
    IF frames = << >> THEN Returned("blocked", {})
    ELSE IF Head(frames).type = "ERROR" THEN Returned("server error", {})
    ELSE IF Head(frames).type = want THEN Returned("", {Head(frames)})
    ELSE IF Head(frames).type \in {"PROCESS_EXIT", "OUTPUT"} THEN ReadLoop(Tail(frames), want)
    ELSE Returned("unexpected response type", {})

ClientGetStatus(frames)  == ReadLoop(frames, "STATUS_RESPONSE")
ClientWait(frames)       == ReadLoop(frames, "WAIT_RESPONSE")
ClientSendSignal(frames) == ReadOnce(frames, "SIGNAL_RESPONSE")
ClientResize(frames)     == ReadOnce(frames, "RESIZE_RESPONSE")

\* The call of the client library that waits for a response of type t, run
\* on the frames a connection delivers.
ClientCall(t, frames) ==
    CASE t = "STATUS_RESPONSE" -> ClientGetStatus(frames)
      [] t = "WAIT_RESPONSE"   -> ClientWait(frames)
      [] t = "SIGNAL_RESPONSE" -> ClientSendSignal(frames)
      [] t = "RESIZE_RESPONSE" -> ClientResize(frames)

\* protocol.ParseStatusResponse: json.Unmarshal into a StatusResponse.  A
\* payload that holds none of its keys, as {"status":"stdin closed"} does,
\* decodes without error and leaves the zero value.
ParseStatusResponse(f) ==
    IF f.status # {} THEN CHOOSE st \in f.status : TRUE
    ELSE [running |-> FALSE, exit_code |-> {}, ended_at |-> {}]

\* The replies to Client.CloseStdin and Client.Shutdown, calls that write
\* their request and return without a read.
UnreadAcks == { StdinClosedAck, ShutdownAck }

\* Client.GetStatus on a connection that delivers frames: the parsed
\* STATUS_RESPONSE its loop ends at.
GetStatusResult(frames) ==
    LET r == ClientGetStatus(frames)
    IN  IF r.err = "" THEN { ParseStatusResponse(CHOOSE f \in r.msg : TRUE) } ELSE {}

\* The frames delivered on connection c that are no events.
ResponsesOf(c) == SelectSeq(sent[c], LAMBDA f : f.type \notin {"OUTPUT", "PROCESS_EXIT"})

(* ------------------------- what clients observe ------------------------ *)
\* The OUTPUT frames of stream s delivered on connection c, in order.
OutputsOf(c, s) == SelectSeq(sent[c], LAMBDA f : f.type = "OUTPUT" /\ f.stream = s)

\* The PROCESS_EXIT frames delivered on connection c.
ExitsOf(c) == SelectSeq(sent[c], LAMBDA f : f.type = "PROCESS_EXIT")

\* Bit s (1 or 2) of a stream selector.
MaskHas(mask, s) == (mask \div s) % 2 = 1

\* A session that is attached with a selector naming stream s.
Subscribed(c, s) == attached[c] /\ MaskHas(streams[c], s)

\* The signed 32-bit integer whose big-endian two's complement is b.
Int32(b) ==
    LET low31 == ((b[1] % 128) * 16777216) + (b[2] * 65536) + (b[3] * 256) + b[4]
    IN IF b[1] >= 128 THEN (low31 - 2147483647) - 1 ELSE low31

\* The reap watcher is past broadcastProcessExit.
ExitBroadcastDone == wpc \in {"rmsock", "close", "done"}

\* The reader of stream s is between two broadcasts.
BetweenBroadcasts(s) == rpc[s] \in {"read", "done"}

(* ------------------------------- claims -------------------------------- *)
\* C1: on every connection, all OUTPUT frames come before the PROCESS_EXIT
\* frame, whatever the interleaving of the readers and the reap watcher.
C1_OutputBeforeExit ==
    \A c \in Conns : \A i, j \in DOMAIN sent[c] :
        (i < j /\ sent[c][i].type = "PROCESS_EXIT") => sent[c][j].type # "OUTPUT"

\* C8: a failed write to one session neither keeps the chunk from the other
\* sessions nor stops the reader (a reader ends only when its conduit is closed
\* or the child is gone): between two broadcasts every subscribed session
\* that is still connected holds every chunk read so far.  The session whose
\* peer is gone stays in the client set until its own handleClient returns.
C8_FailedWriteIsolated ==
    /\ \A s \in Streams :
          /\ rpc[s] = "done" => (pipeClosed \/ ~childAlive)
          /\ \A c \in Conns :
                (BetweenBroadcasts(s) /\ ConnWritable(c) /\ Subscribed(c, s))
                    => Len(OutputsOf(c, s)) = rcount[s]
    /\ \A c \in Conns : (cli[c] = "closed" /\ dpc[c] # "exited") => c \in clients

\* C8 witness: a write of the last chunk to a registered session whose peer is
\* gone has failed, and another session holds that chunk.
C8_Witness ==
    \E s \in Streams, a, b \in Conns :
        /\ rpc[s] = "read"
        /\ rcount[s] >= 1
        /\ cli[a] = "closed" /\ a \in clients /\ Subscribed(a, s)
        /\ Len(OutputsOf(a, s)) < rcount[s]
        /\ ConnWritable(b)
        /\ Len(OutputsOf(b, s)) = rcount[s]

\* C9: the OUTPUT frames of one stream reach a session in the order the
\* reader read the chunks, none twice and none skipped: they are the chunks
\* 1, 2, ..., k of that stream.
C9_StreamOrder ==
    \A c \in Conns, s \in Streams :
        LET out == OutputsOf(c, s)
        IN \A i \in DOMAIN out : out[i].data = i

\* C9 witness: two chunks of stdout have been read and a session holds both.
C9_Witness ==
    /\ \E c \in Conns : Len(OutputsOf(c, StreamStdout)) >= 2
    /\ rcount[StreamStdout] >= 2

\* C10: once broadcastProcessExit is over, every attached session that is
\* still connected holds exactly one PROCESS_EXIT frame, and its payload
\* decodes to the exit code of the status snapshot; no session ever holds two.
C10_OneProcessExit ==
    \A c \in Conns :
        /\ Len(ExitsOf(c)) <= 1
        /\ (ExitBroadcastDone /\ attached[c] /\ ConnWritable(c))
              => /\ Len(ExitsOf(c)) = 1
                 /\ {Int32(ExitsOf(c)[1].code)} = GetStatus.exit_code

\* C10 witness: the reap is complete, the exit code is negative and every
\* session holds its PROCESS_EXIT frame.
C10_Witness ==
    /\ wpc = "done"
    /\ exitCode = {-1}
    /\ \A c \in Conns : attached[c] /\ ConnWritable(c) /\ Len(ExitsOf(c)) = 1

\* The status snapshots taken so far: in STATUS_RESPONSE frames written or
\* about to be written, in the entry point, and in status.json.
Snapshots ==
    UNION ( UNION { { sent[c][i].status : i \in DOMAIN sent[c] } : c \in Conns }
            \cup UNION { { dreply[c][i].status : i \in DOMAIN dreply[c] } : c \in Conns }
            \cup { mstatus, statusContent } )

\* C2: status.json exists from the moment the child is reaped (running is
\* false and the done channel is closed) onward.
C2_StatusFromReap ==
    (~running /\ doneCh /\ ~dirRemoved) => statusExists

\* C3: once the reap watcher has removed the socket, New(pid) finds the
\* tombstone: there is no moment where the socket is gone and status.json is
\* not there to be read.
C3_TombstoneAfterExit ==
    (~childAlive /\ wpc \in {"close", "done"} /\ ~dirRemoved) => NewOutcome = "zombie"

\* C4: every status snapshot with running = false carries the exit code and
\* the end time, and they are the values the daemon holds from then on.
C4_ExitedSnapshotComplete ==
    \A st \in Snapshots :
        ~st.running =>
            /\ st.exit_code # {} /\ st.ended_at # {}
            /\ st.exit_code = exitCode /\ st.ended_at = endedAt

\* C4 witness: one connection was answered a snapshot taken while the child
\* ran and then one taken after the reap, and status.json holds a snapshot.
C4_Witness ==
    /\ \E c \in Conns :
          /\ Len(sent[c]) = 2
          /\ \E st \in sent[c][1].status : st.running
          /\ \E st \in sent[c][2].status : ~st.running /\ st.exit_code = {-1}
    /\ \E st \in statusContent : ~st.running

\* C5: the socket file exists exactly while the listener accepts; after the
\* reap watcher removed it, Accept returns no further connection.
C5_NoAcceptAfterReap ==
    [][(acc' # acc /\ acc' # 0) => (sockFile /\ listener)]_vars

\* C6: the writes of two frames never interleave on a connection: every
\* first write follows a last write, every other write follows the write
\* before it of the same goroutine.
C6_FramesNeverInterleave ==
    \A c \in Conns : \A i \in DOMAIN wire[c] :
        IF wire[c][i].part = 1
          THEN i = 1 \/ wire[c][i - 1].part = WriteMessageWrites
          ELSE /\ i > 1
               /\ wire[c][i - 1].by = wire[c][i].by
               /\ wire[c][i - 1].part = wire[c][i].part - 1

\* The step in which the broadcast of stream s takes its decision for session c.
Examines(s, c) ==
    /\ rpc[s] = "iter" /\ rsel[s] = 0 /\ c \in rlist[s]
    /\ rsel'[s] = c \/ rlist'[s] = rlist[s] \ {c}

C11_EventsDiscarded ==
    \A c \in Conns :
        (Len(ResponsesOf(c)) = 1 /\ ResponsesOf(c)[1].type # "ERROR")
            => ClientCall(ResponsesOf(c)[1].type, sent[c]) = Returned("", {ResponsesOf(c)[1]})

\* C15: no signal is sent to the PID once cmd.Wait() has reaped the child,
\* and no SIGNAL request gets as far as a Kill that finds no process.
C15_NoSignalAfterReap ==
    /\ \A i \in DOMAIN sigs : ~sigs[i].reaped
    /\ \A c \in Conns : dreply[c] # << WriteError("failed to send signal") >>

\* C12: an application-level failure (a handler's error, an unknown message
\* type) is reported with an ERROR frame and the dispatcher reads the next
\* frame; a dispatcher returns only when the connection is closed (by the peer
\* or by the daemon) or after SHUTDOWN.
C12_ErrorsKeepConnection ==
    [][\A c \in Conns :
          /\ dpc[c] = "write" => dpc'[c] \in {"write", "read"}
          /\ (dpc[c] = "write" /\ dpc'[c] = "read" /\ ConnWritable(c))
                => sent'[c] = Append(sent[c], Head(dreply[c]))
          /\ (dpc'[c] = "exit" /\ dpc[c] # "exit") => dpc[c] = "shuterr"
          /\ (dpc'[c] = "exited" /\ dpc[c] # "exited")
                => (dpc[c] = "exit" \/ srvClosed[c] \/ cli[c] = "closed")]_vars

\* An ERROR frame for an unknown message type was followed by a response on
\* the same, still open connection.
C12_Witness ==
    \E c \in Conns :
        /\ Len(sent[c]) = 2
        /\ sent[c][1] = WriteError("unknown message type")
        /\ sent[c][2].type = "STATUS_RESPONSE"
        /\ dpc[c] = "read" /\ ConnWritable(c)

\* The errors of payload validation in handleSignal, handleResize,
\* handleAttach and ParseWait.
InvalidPayloadErrors ==
    { WriteError("invalid signal payload length"), WriteError("invalid terminal size"),
      WriteError("invalid stream selector"), WriteError("invalid wait payload length") }

\* The handler of connection c returns a payload validation error.
RejectsPayload(c) ==
    dreply[c] = << >> /\ dreply'[c] # << >> /\ Head(dreply'[c]) \in InvalidPayloadErrors

\* C13: a SIGNAL whose payload is not one byte, a RESIZE with rows or cols 0
\* or above 500, an ATTACH whose selector is not 1, 2 or 3 and a WAIT whose
\* payload is not five bytes are rejected with ERROR: the supervisor, the
\* child, the PTY, stdin and the attachments stay as they are (so the window
\* size and the selectors in force are always valid ones), and the dispatcher
\* goes on with the connection.
C13_InvalidPayloadRejected ==
    /\ [](/\ useVTY => (winsize[1] \in 1..500 /\ winsize[2] \in 1..500)
          /\ \A c \in Conns : streams[c] \in 0..StreamBoth
          /\ \A c \in Conns : attached[c] /\ mu # "attach" => streams[c] \in 1..StreamBoth)
    /\ [][\A c \in Conns :
            /\ RejectsPayload(c)
                 => /\ UNCHANGED << stV, childV, pipeClosed, sigs, winsize, stdinV, cmapV >>
                    /\ srvClosed'[c] = srvClosed[c]
                    /\ dpc'[c] = "write"
            /\ (dpc[c] = "write" /\ dreply[c] # << >> /\ Head(dreply[c]) \in InvalidPayloadErrors)
                 => dpc'[c] \in {"write", "read"}]_vars

\* A RESIZE with an invalid size was rejected, the window kept its size, and
\* a valid RESIZE on the same connection was then carried out.
C13_Witness ==
    \E c \in Conns :
        /\ Len(sent[c]) = 2
        /\ sent[c][1] = WriteError("invalid terminal size")
        /\ sent[c][2] = ResizeResponse
        /\ winsize = << 30, 30 >>

\* C14: every WAIT_RESPONSE answers a WAIT whose wait_type is 0x00 or 0x01; a
\* WAIT with any other wait_type is answered with ERROR.
C14_UnknownWaitTypeIsError ==
    \A c \in Conns :
        (dreply[c] # << >> /\ Head(dreply[c]).type = "WAIT_RESPONSE")
            => wait[c].type \in {WaitTypeExit, WaitTypeForeground}

\* A CLOSE_STDIN request has been acknowledged.
StdinCloseSucceeded == \E c \in Conns : \E i \in DOMAIN sent[c] : sent[c][i] = StdinClosedAck

\* C16: once a CLOSE_STDIN has succeeded no request delivers bytes to the
\* child, and a STDIN request is not answered with the error of a failed
\* write but with the stdin-unavailable error.
C16_StdinRejectedAfterClose ==
    [][StdinCloseSucceeded
          => /\ stdinBytes' = stdinBytes
             /\ \A c \in Conns : \/ dreply'[c] = dreply[c]
                                 \/ dreply'[c] # << WriteError("failed to write to stdin") >>]_vars

\* The WAIT of connection c, of type t, has just returned with status st.
WaitReturned(c, t, st) ==
    /\ dpc[c] = "write"
    /\ dreply[c] = << WriteWaitResponse(st) >>
    /\ wait[c].type = t

\* C17: an exit wait with a timeout returns Completed only when the child is
\* no longer running, and Timeout only if the child was still running when
\* timeout_secs had elapsed.
C17_ExitWaitOutcome ==
    \A c \in Conns :
        wait[c].timeout > 0 =>
            /\ WaitReturned(c, WaitTypeExit, WaitStatusCompleted) => ~running
            /\ WaitReturned(c, WaitTypeExit, WaitStatusTimeout) => wait[c].held = {FALSE}

\* C18: a WAIT with timeout_secs = 0 returns Completed if its condition holds
\* when it is made, and Timeout otherwise.
C18_ZeroTimeoutPolls ==
    \A c \in Conns, t \in {WaitTypeExit, WaitTypeForeground} :
        wait[c].timeout = 0 =>
            /\ WaitReturned(c, t, WaitStatusCompleted) => wait[c].held = {TRUE}
            /\ WaitReturned(c, t, WaitStatusTimeout) => wait[c].held = {FALSE}

\* Connection c has received the acknowledgment of SHUTDOWN.
ShutdownAcked(c) == \E i \in DOMAIN sent[c] : sent[c][i] = ShutdownAck

C20_StopLeavesChild ==
    [][/\ spc' # spc => UNCHANGED << stV, sigs, childV >>
       /\ stV' # stV => (wpc' # wpc /\ ~childAlive)]_vars

\* stop() has completed after a SHUTDOWN while the child is alive and still
\* recorded as running.
C20_Witness ==
    /\ spc = "done"
    /\ \E c \in Conns : ShutdownAcked(c)
    /\ childAlive /\ running /\ exitCode = {} /\ endedAt = {}

\* C21: status.json is never there half written: whenever the file exists it
\* holds a complete snapshot, and no New(pid) fails to parse it.
C21_TombstoneAtomic ==
    /\ statusExists => statusContent # {}
    /\ \A c \in Conns : cli[c] # "err_parse"

\* C22: an exit wait in tombstone mode returns Completed and the runtime
\* directory is gone; from then on constructing a client for the PID fails
\* for want of the directory.
C22_ZombieWaitReaps ==
    /\ [](\A c \in Conns : cli[c] = "reaped" => (zret[c] = {WaitStatusCompleted} /\ dirRemoved))
    /\ [][\A c \in Conns :
            ((\E b \in Conns : cli[b] = "reaped") /\ cli[c] = "idle" /\ cli'[c] # "idle")
                => cli'[c] = "err_nodir"]_vars

\* One client has reaped the tombstone and the next construction failed.
C22_Witness ==
    \E c, b \in Conns : cli[c] = "reaped" /\ zret[c] = {WaitStatusCompleted} /\ cli[b] = "err_nodir"

\* C23: a tombstone-mode client keeps its cached status and its handle on
\* output.log across the reap: GetStatus and ReadOutput succeed before and
\* after, and ReadOutput returns after the reap what it returned before.
C23_HandlesRetained ==
    /\ [](\A c \in Conns :
            cli[c] \in {"zombie", "reaped"}
               => /\ ZombieStatus(c) # {}
                  /\ ReadOutput(c) = [err |-> "", data |-> {OutputLog}])
    /\ [][\A c \in Conns :
            (cli[c] = "zombie" /\ cli'[c] = "reaped")
               => (ReadOutput(c)' = ReadOutput(c) /\ ZombieStatus(c)' = ZombieStatus(c))]_vars

\* A client has reaped a tombstone whose output.log holds output.
C23_Witness ==
    \E c \in Conns :
        /\ cli[c] = "reaped" /\ dirRemoved
        /\ ReadOutput(c).err = ""
        /\ \E s \in Streams : OutputLog[s] > 0

\* C24: the exit code parsed from a PROCESS_EXIT frame is the exit code that
\* was given to WriteProcessExit, negative ones included.
C24_ExitCodeRoundTrip ==
    \A e \in exitIn : \A r \in exitParsed :
        r.err = "" /\ r.code = IntBytes(e, intSize)

\* C25: a ReadMessage that succeeds has taken 4+N bytes, N the length field,
\* and yields the fifth byte as type and the N-1 bytes after it as payload;
\* it fails when N is 0 or above 10 MiB, and when the stream ends before the
\* length field or before the N bytes after it.
C25_ReadFrame ==
    [][DoReadMessage =>
         LET r      == rstream
             hasLen == ByteLen(r) >= 4
             lb     == Unpack(Take(r, 4))
         IN /\ ( \/ ~ hasLen
                 \/ lb = << 0, 0, 0, 0 >>
                 \/ Uint32Gt(lb, MaxMessageLength)
                 \/ Uint32Gt(lb, ByteLen(r) - 4) ) => rmsg'.err # ""
            /\ rmsg'.err = "" =>
                 /\ hasLen
                 /\ ByteLen(r) - ByteLen(rstream') = 4 + Uint32Value(lb)
                 /\ rstream' = Drop(r, 4 + Uint32Value(lb))
                 /\ rmsg'.type = ByteAt(r, 5)
                 /\ ByteLen(rmsg'.payload) = Uint32Value(lb) - 1
                 /\ rmsg'.payload = Take(Drop(r, 5), Uint32Value(lb) - 1)]_vars

\* A frame with the longest payload has been read and another frame is left
\* on the stream.
C25_Witness ==
    /\ rmsg.err = ""
    /\ ByteLen(rmsg.payload) = MaxMessageLength - 1
    /\ rstream # << >>

\* C26: reading the bytes of one WriteMessage with a payload of at most
\* 10 MiB - 1 bytes yields the type and the payload that were written and
\* leaves nothing on the stream.
C26_RoundTrip ==
    [][(DoReadMessage /\ wlast # {}) =>
         \A w \in wlast :
            ByteLen(w.payload) <= MaxMessageLength - 1 =>
               /\ rmsg' = [err |-> "", type |-> w.type, payload |-> w.payload]
               /\ rstream' = << >>]_vars

\* The frame with type 255 and the longest payload has been written and read.
C26_Witness ==
    /\ rmsg = [err |-> "", type |-> 255, payload |-> Run(65, MaxMessageLength - 1)]
    /\ rstream = << >>

\* C27: after any bytes written and any resize the cursor is inside the
\* screen: 0 <= cursorRow < rows and 0 <= cursorCol < cols.
C27_CursorInViewport ==
    /\ 0 <= term.cursorRow /\ term.cursorRow < term.rows
    /\ 0 <= term.cursorCol /\ term.cursorCol < term.cols

\* C28: the scrollback never holds more than maxScrollback lines.
C28_ScrollbackBounded == term.scrollback <= term.maxScrollback

\* The scrollback is full and one more line has scrolled off the screen.
C28_Witness ==
    /\ term.scrollback = term.maxScrollback
    /\ term.maxScrollback = 1000
    /\ term.cursorRow = term.rows - 1
    /\ term.cursorCol = 1

\* C29: status.json is written at reap only: while it is there the child has
\* exited, and the status in it says running = false.
C29_TombstoneAtReap ==
    /\ statusExists => ~ childAlive
    /\ \A st \in statusContent : ~ st.running

\* C30: once stop() has returned, no registered connection is open, so that
\* no session is served any longer, a connection that was being accepted
\* while stop() ran included.
C30_StopClosesEveryone ==
    (Alive /\ spc = "done") => \A c \in clients : srvClosed[c]

\* The acknowledgments of CLOSE_STDIN written so far, as (connection, place).
StdinAcks ==
    { p \in UNION { { << c, i >> : i \in DOMAIN sent[c] } : c \in Conns } :
         sent[p[1]][p[2]] = StdinClosedAck }
       \cup { << c, 0 >> : c \in { d \in Conns : dreply[d] = << StdinClosedAck >> } }

\* C31: whatever the order of the CLOSE_STDIN requests of the clients and of
\* stop(), at most one handler gets to close the stdin pipe and at most one
\* CLOSE_STDIN is acknowledged.
C31_StdinClosedOnce ==
    /\ Cardinality({ c \in Conns : dpc[c] = "closepipe" })
          + (IF stdinPipeClosed THEN 1 ELSE 0) <= 1
    /\ Cardinality(StdinAcks) <= 1
    /\ StdinAcks # {} => stdinClosed /\ stdinPipeClosed

\* One client's CLOSE_STDIN was acknowledged and another client's was refused.
C31_Witness ==
    /\ stdinPipeClosed
    /\ \E c, b \in Conns :
          /\ c # b
          /\ \E i \in DOMAIN sent[c] : sent[c][i] = StdinClosedAck
          /\ \E i \in DOMAIN sent[b] :
                sent[b][i] = WriteError("stdin is not available for streaming")

\* C32: a WAIT in progress does not keep stop() from finishing, and once
\* stop() has run the poller of the wait polls no more and no further time
\* of the wait's timeout passes.
C32_WaitEndsAtShutdown ==
    [][spc = "done" =>
          \A c \in Conns :
             dpc[c] = "wait" => (wait'[c].polls = wait[c].polls /\ wait'[c].clock = wait[c].clock)]_vars

\* C33: a client that has stopped reading does not keep the other attached
\* clients from what follows: every chunk read from a stream reaches each
\* client that selected the stream, and once the child is reaped
\* PROCESS_EXIT reaches each client, as long as that client itself reads and
\* is connected.
Served(b) == stalled[b] \/ ~ConnWritable(b)
C33_OthersStillServed ==
    \A b \in Conns :
        /\ (~running) ~> (Served(b) \/ \E i \in DOMAIN sent[b] : sent[b][i].type = "PROCESS_EXIT")
        /\ \A s \in Streams : \A k \in 1..MaxChunks :
              (rcount[s] = k /\ BroadcastSelects(s, b))
                 ~> (Served(b) \/ \E i \in DOMAIN sent[b] : sent[b][i] = WriteOutput(s, k))

\* C34: a GetStatus that follows calls of CloseStdin or Shutdown on the same
\* connection returns the snapshot handleStatus took for it, not the
\* acknowledgment of an earlier call: those calls have consumed their replies.
C34_StatusNotAnAck ==
    \A c \in Conns : \A i \in DOMAIN sent[c] :
        ( /\ sent[c][i].type = "STATUS_RESPONSE"
          /\ sent[c][i].status # {}
          /\ \A j \in 1..(i - 1) : sent[c][j] \in UnreadAcks )
            => GetStatusResult(sent[c]) = sent[c][i].status

\* C35: when status.json is there, output.log holds all the child has
\* written: the child is gone by then, so no reader appends a chunk to the
\* log from that moment on.
C35_LogCompleteAtTombstone ==
    [][statusExists => OutputLog' = OutputLog]_vars

\* C36: a session that has attached and keeps reading sees the end of the
\* event stream once the child has exited, whether the child exited before
\* or after the ATTACH was handled: a PROCESS_EXIT frame, or the close of its
\* connection.
C36_AttachedSeesEnd ==
    \A c \in Conns :
        (attached[c] /\ ~childAlive)
            ~> (stalled[c] \/ srvClosed[c] \/ ExitsOf(c) # << >>)

\* What the scrollback holds after one more line, top, has scrolled off.
Scrolled(sb, top, max) ==
    IF Len(sb) + 1 > max THEN Tail(Append(sb, top)) ELSE Append(sb, top)

\* C37: a line feed with the cursor on the last row appends the top row to
\* the tail of the scrollback, the oldest line leaving once there would be
\* more than maxScrollback; the other rows move up by one, the bottom row is
\* cleared and the cursor stays on the last row.
C37_ScrollAtLastRow ==
    [][(WriteData(<< LF >>, MaxWrites) /\ term.cursorRow = term.rows - 1)
          => /\ cells'.scrollback = Scrolled(cells.scrollback, cells.screen[1], term.maxScrollback)
             /\ \A r \in 1..(term.rows - 1) : cells'.screen[r] = cells.screen[r + 1]
             /\ cells'.screen[term.rows] = BlankRow(term.cols)
             /\ term'.cursorRow = term.rows - 1]_vars

\* Two different lines are in a full scrollback, the newer one last, below a
\* cleared bottom row.
C37_Witness ==
    /\ term.rows = 3 /\ term.cursorRow = 2
    /\ Len(cells.scrollback) = 2
    /\ cells.scrollback[1][1].Char = Byte("A")
    /\ cells.scrollback[2][1].Char = Byte("x")
    /\ cells.screen[3] = BlankRow(term.cols)
    /\ twrites = MaxWrites

\* C38: a printable character that arrives with the cursor column at or past
\* cols goes to column 0 of the next row, after a scroll when the cursor was
\* on the last row; the screen stays a matrix of rows by cols cells, and the
\* cell written is one of them.
C38_WrapThenWrite ==
    /\ [](/\ Len(cells.screen) = term.rows
          /\ \A r \in 1..term.rows : Len(cells.screen[r]) = term.cols)
    /\ [][\A ch \in CellChars :
            (WriteData(<< ch >>, MaxWrites) /\ term.cursorCol >= term.cols)
               => LET atLast == term.cursorRow = term.rows - 1
                      row    == IF atLast THEN term.rows - 1 ELSE term.cursorRow + 1
                      put    == [Char |-> ch, Attr |-> cells.currentAttr]
                  IN /\ term'.cursorRow = row
                     /\ term'.cursorCol = 1
                     /\ cells'.screen[row + 1][1] = put
                     /\ IF atLast
                          THEN /\ cells'.scrollback =
                                    Scrolled(cells.scrollback, cells.screen[1], term.maxScrollback)
                               /\ \A r \in 1..(term.rows - 1) : cells'.screen[r] = cells.screen[r + 1]
                               /\ \A c \in 2..term.cols : cells'.screen[row + 1][c] = Blank
                          ELSE /\ cells'.scrollback = cells.scrollback
                               /\ \A r \in 1..term.rows : \A c \in 1..term.cols :
                                     (r # row + 1 \/ c # 1)
                                        => cells'.screen[r][c] = cells.screen[r][c]]_vars

\* A row was filled, the next character went to the row below it.
C38_Witness ==
    /\ term.rows = 3 /\ term.cursorRow = 1 /\ term.cursorCol = 1
    /\ cells.screen[1] = << [Char |-> Byte("A"), Attr |-> DefaultAttr],
                            [Char |-> Byte("A"), Attr |-> DefaultAttr] >>
    /\ cells.screen[2][1] = [Char |-> Byte("x"), Attr |-> DefaultAttr]
    /\ cells.scrollback = << >>

\* The parameters applied one after the other, first to last.
RECURSIVE LeftToRight(_, _)
LeftToRight(a, ps) ==
    IF ps = << >> THEN a ELSE LeftToRight(sgrParam(a, Head(ps)), Tail(ps))

\* The cell the last putChar wrote.
LastCell(t, g) == g.screen[t.cursorRow + 1][t.cursorCol]

\* C39: the parameters of one SGR sequence are applied from left to right,
\* an empty list as the list of the one parameter 0; a 0 resets the pen to
\* the defaults before the parameters after it apply; a character written
\* carries the pen of that moment.
C39_SgrLeftToRight ==
    /\ [][\A ps \in PlainLists :
            WriteData(Sgr(ps), MaxPen)
               => cells'.currentAttr =
                     LeftToRight(cells.currentAttr, IF ps = << >> THEN << 0 >> ELSE ps)]_vars
    /\ [][\A ps \in PlainLists : \A k \in DOMAIN ps :
            (WriteData(Sgr(ps), MaxPen) /\ ps[k] = 0)
               => cells'.currentAttr = LeftToRight(DefaultAttr, SubSeq(ps, k + 1, Len(ps)))]_vars
    /\ [][WriteData(<< Byte("x") >>, MaxPen)
            => LastCell(term', cells') = [Char |-> Byte("x"), Attr |-> cells.currentAttr]]_vars

\* "ESC [ 1 ; 3 ; 31 ; 44 m x ESC [ 1 ; 0 ; 4 m x": the first x is bold, italic,
\* red on blue, the second is underlined and nothing else.
C39_Witness ==
    /\ cells.screen[1][1] =
          [Char |-> Byte("x"),
           Attr |-> [DefaultAttr EXCEPT !.Bold = TRUE, !.Italic = TRUE, !.Fg = 1, !.Bg = 4]]
    /\ cells.screen[1][2] =
          [Char |-> Byte("x"), Attr |-> [DefaultAttr EXCEPT !.Underline = TRUE]]

\* The pen after 38 or 48 with its sub-parameters: an index below 16 is the
\* new foreground or background, any other form changes nothing.
Extended(a, e) ==
    IF e.sub[1] = 5 /\ e.sub[2] < 16
    THEN (IF e.intro = 38 THEN [a EXCEPT !.Fg = e.sub[2]] ELSE [a EXCEPT !.Bg = e.sub[2]])
    ELSE a

\* C40: the sub-parameters after 38 or 48 (5;n or 2;r;g;b) are stepped over
\* and never taken as SGR codes of their own: the pen is what the introducer
\* made of it, then what the parameters after the sub-parameters make of it.
\* An index of 16 or more and the RGB form leave the pen as it was.
C40_SubParamsSkipped ==
    [][\A e \in ExtForms :
          WriteData(Sgr(ExtList(e)), MaxPen)
             => cells'.currentAttr = LeftToRight(Extended(cells.currentAttr, e), e.post)]_vars

\* "ESC [ 38 ; 5 ; 1 ; 3 m x": x is italic in color 1, neither bold nor blinking.
C40_Witness ==
    \E c \in 1..term.cols :
        cells.screen[1][c] =
           [Char |-> Byte("x"), Attr |-> [DefaultAttr EXCEPT !.Fg = 1, !.Italic = TRUE]]

====
